---- MODULE Spec2Model ----
(***************************************************************************)
(* The control protocol engine of claude-agent-sdk-go                      *)
(* (internal/protocol/query.go), the subprocess transport's write/close    *)
(* state (internal/transport/subprocess.go) and the Client wrapper.        *)
(*                                                                         *)
(* One reader goroutine takes decoded objects from the transport and       *)
(* routes them: control_response to the pending outbound request of that   *)
(* id, control_request to a new handler goroutine, everything else to the  *)
(* bounded consumer channel.  Callers of sendControlRequest register a     *)
(* pending entry, write the request and wait for the result or for their   *)
(* own context.                                                            *)
(*                                                                         *)
(* Optional values (Go nil pointers, absent JSON keys, an empty channel of *)
(* capacity one) are sequences of length at most one.                      *)
(***************************************************************************)
EXTENDS Integers, Sequences, FiniteSets, TLC

\* ------------------------------------------------------------ bounds ----
\* Objects the reader takes from the transport in one run.
MaxEmit == 3
\* Capacity of the consumer channel (make(chan ..., 100) in NewQuery),
\* scaled down so that a full channel is reached.
ChanCap == 2
\* Calls of Close in one run.
MaxClose == 2
\* can_use_tool requests the process sends in one run of SpecPerm.
MaxPermRequests == 2
\* Objects the process sends in one run of SpecHooks.
MaxHookEmit == 2
\* Control responses the process sends in one run with outbound requests.
MaxResponses == 2

\* Goroutines that call sendControlRequest.
Callers == {"c1", "c2"}
\* Values of the four random bytes of a request id.
RandHex == {"00000000", "ffffffff"}
\* The callers of SubprocessTransport.Write, named by the function that
\* makes the call.
Writers == {"sendControlRequest", "handleControlRequest", "SendQuery"}

VARIABLES
    \* ---- configuration, fixed by NewQuery / Client.Connect
    isStreamingMode,   \* Query.isStreamingMode
    canUseTool,        \* Query.canUseTool: <<>> (nil) or <<name of the callback>>
    optsCanUseTool,    \* AgentOptions.CanUseTool of the user: TRUE when set
    optsHooks,         \* QueryOptions.Hooks of the user: event -> matchers
    hooks,             \* Query.hooks: event -> sequence of matchers
    hookCallbacks,     \* Query.hookCallbacks: callback id -> registered callback
    sdkMCPServers,     \* Query.sdkMCPServers: server name -> MCPServerHandler
    client,            \* Client: <<>> when the Query is used directly
    \* ---- reader goroutine and message stream
    emitted,           \* history: objects the reader took from the transport
    readerPc,          \* "idle", "select", "push", "done"; "crashed" when a
                       \* panic has ended the program
    readerMsg,         \* the object of a blocked push, <<>> otherwise
    messageChan,       \* Query.messageChan (open until the reader is done)
    delivered,         \* history: objects the consumer received
    errorChan,         \* Query.errorChan, capacity 1
    firstResultEvent,  \* TRUE once close(q.firstResultEvent) ran
    \* ---- cancellation and close
    closed,            \* Query.closed
    qctxDone,          \* q.ctx cancelled
    ctxDone,           \* the context given to Start is cancelled
    transport,         \* SubprocessTransport's write/close state
    closeCalls,        \* history: the Close calls made so far, [on, err] each
    \* ---- outbound control requests
    written,           \* lines written to the process's stdin, in order
    pendingResponses,  \* Query.pendingResponses: request id -> channel (its caller)
    requestCounter,    \* Query.requestCounter
    callerPc,          \* per caller: "idle", "registered", "waiting", "done",
                       \* "returned" (Initialize has returned)
    callerId,          \* per caller: the request id it registered
    callerReq,         \* per caller: the request map it was called with
    callerCtx,         \* per caller: TRUE once its context is done
    callerRet,         \* per caller: what sendControlRequest returned
    respChan,          \* per caller: its respChan, capacity 1
    routed,            \* history: responses found pending, [seq, c]: the
                       \* response's position and the caller it went to
    \* ---- inbound control requests
    handlers,          \* control requests whose handler goroutine is running
    invoked,           \* history: callbacks invoked, [seq, cb, out, n]: the
                       \* request that did it, the callback, what it returned,
                       \* and n for the handler's n-th call
    hookCalls,         \* history: the hook callbacks invoked, [seq, toolUseID]:
                       \* the request and the toolUseID argument of the call,
                       \* <<>> for nil
    \* ---- the goroutine of SubprocessTransport.ReadMessages
    printed,           \* the last line of text the process printed, if any
    line,              \* line: the line the scanner returned last, if any
    nScanned,          \* how many lines the scanner was given
    jsonBuffer,        \* jsonBuffer: the lines accumulated, trimmed
    framerPc,          \* "scan", "sendMsg", "sendDecodeErr", "sendScanErr",
                       \* "wait", "sendExitErr", "done" (both channels closed)
    framerMsg,         \* data: the decoded object of a send in progress
    tMsgChan,          \* msgChan of ReadMessages
    tErrChan,          \* errChan of ReadMessages, capacity 1
    \* ---- the goroutine of the one-shot Query() function
    loopPc,            \* "off" (streaming mode), "select", "done"
    queryOut,          \* history: what Query() put on the channel it returned
    \* ---- a caller of Query.WaitForFirstResult
    waitRet,           \* "none" while it has not returned, else the select
                       \* case that made it return: "ctx", "signal", "timeout"
    \* ---- the initialization handshake
    initialized,       \* Query.initialized
    initResult,        \* Query.initResult: <<>> (nil) or <<payload>>
    \* ---- SubprocessTransport.Write and Close, step by step
    writeMu,           \* SubprocessTransport.writeMu: <<>> or <<its holder>>
    stdinPipe,         \* the fragments that reached the process's stdin, in order
    writerPc,          \* per writer: "idle", "lock", "checks", "write", "done", "failed"
    writerPart,        \* per writer: how many fragments of its line are written
    closePc,           \* Close: "idle", "stdin", "kill", "done"
    \* ---- Client.ReceiveMessages and Client.ReceiveResponse
    recvKind,          \* the call in progress: "none", "messages", "response"
    recvPc,            \* its goroutine: "off", "range", "send", "closed" (it
                       \* returned and its channel is closed)
    recvMsg,           \* the parsed message it is about to send, <<>> or <<m>>
    msgChan,           \* the channel the call returned
    yielded,           \* history: per call, what the caller took from its channel
    \* ---- the Client's mutex
    clientMu,          \* Client.mu: <<>> or <<the goroutine that holds it>>
    clientClosePc      \* a call of Client.Close: "idle", "lock" (it waits for
                       \* Client.mu), "done"

cfgVars == <<isStreamingMode, canUseTool, optsCanUseTool, optsHooks, hooks,
             hookCallbacks, sdkMCPServers>>
streamVars == <<emitted, readerPc, readerMsg, messageChan, delivered, errorChan,
                firstResultEvent>>
closeVars == <<closed, qctxDone, ctxDone, transport, closeCalls, client>>
callVars == <<written, pendingResponses, requestCounter, callerPc, callerId, callerReq,
              callerCtx, callerRet, respChan, routed>>
inVars == <<handlers, invoked, hookCalls>>
frameVars == <<printed, line, nScanned, jsonBuffer, framerPc, framerMsg, loopPc, queryOut>>
pipeVars == <<tMsgChan, tErrChan>>
waitVars == <<waitRet>>
initVars == <<initialized, initResult>>
writeVars == <<writeMu, stdinPipe, writerPc, writerPart, closePc>>
recvVars == <<recvKind, recvPc, recvMsg, msgChan, yielded>>
lockVars == <<clientMu, clientClosePc>>
vars == <<cfgVars, streamVars, closeVars, callVars, inVars, frameVars, pipeVars,
          waitVars, initVars, writeVars, recvVars, lockVars>>

\* ----------------------------------------------------- wire objects ----
\* Every object the process emits carries seq, its position in the stream:
\* seq stands for the rest of the object's content, so two objects are never
\* equal and a payload identifies the object it came from.
ControlTypes == {"control_request", "control_response", "control_cancel_request"}

\* The id the process gives the seq-th object when it is a control_request.
CliId(seq) == <<seq, "cli">>
\* An id no sendControlRequest of this run produces (its counter is 0).
StaleId == <<0, "00000000">>

ConvObject(type, seq) == [type |-> type, seq |-> seq]

CancelObject(seq) == [type |-> "control_cancel_request", seq |-> seq,
                      request_id |-> CliId(seq)]

\* {"type":"control_response","response":{"subtype","request_id",
\*  "response"?|"error"?}}
ResponseObject(seq, id, subtype) ==
    [type |-> "control_response", seq |-> seq,
     response |-> [subtype |-> subtype, request_id |-> id,
                   response |-> IF subtype = "error" THEN <<>> ELSE <<seq>>,
                   error |-> IF subtype = "error" THEN <<seq>> ELSE <<>>]]

\* {"type":"control_request","request_id","request":{"subtype",...}}
RequestObject(seq, request) ==
    [type |-> "control_request", seq |-> seq, request_id |-> CliId(seq),
     request |-> request]

\* --------------------------------------------------------- transport ----
\* SubprocessTransport after a successful Connect.
TransportConnected(streaming) ==
    [ready |-> TRUE, closed |-> FALSE, stdin |-> streaming, stderr |-> TRUE,
     stdout |-> TRUE, proc |-> "running", exitError |-> FALSE]

\* SubprocessTransport.Write: the possible outcomes [t, ok] of one call.
\* A terminated process makes the write fail either at the ProcessState
\* check (no state change) or in io.WriteString (ready cleared, exitError set).
TransportWrite(t) ==
    IF ~t.ready \/ ~t.stdin THEN {[t |-> t, ok |-> FALSE]}
    ELSE IF t.closed THEN {[t |-> t, ok |-> FALSE]}
    ELSE IF t.proc # "running"
         THEN {[t |-> t, ok |-> FALSE],
               [t |-> [t EXCEPT !.ready = FALSE, !.exitError = TRUE], ok |-> FALSE]}
    ELSE {[t |-> t, ok |-> TRUE]}

\* The error SubprocessTransport.Close returns on the transport t: the
\* errors of closing the pipes, of Kill and of Wait are dropped ("_ ="), and
\* it ends in "return nil".
CloseErr(t) == <<>>

\* Mutant of TransportClose: on a transport that is closed already, waiting
\* for the process again records an error.
TransportCloseAgainFails(t) ==
    IF t.closed THEN [t EXCEPT !.exitError = TRUE]
    ELSE [t EXCEPT !.closed = TRUE, !.ready = FALSE, !.stdin = FALSE,
                   !.stderr = FALSE, !.stdout = FALSE, !.exitError = FALSE,
                   !.proc = IF t.proc = "running" THEN "killed" ELSE t.proc]

\* SubprocessTransport.Close.
TransportClose(t) ==
    [t EXCEPT !.closed = TRUE, !.ready = FALSE, !.stdin = FALSE,
              !.stderr = FALSE, !.stdout = FALSE, !.exitError = FALSE,
              !.proc = IF t.proc = "running" THEN "killed" ELSE t.proc]

\* ---------------------------------------------- outbound: results ----
\* ControlResult{Response, Error}.
ResultOk(payload) == [Response |-> payload, Error |-> <<>>]
ResultErr(kind, of) == [Response |-> <<>>, Error |-> <<[kind |-> kind, of |-> of]>>]

\* The non-blocking send "select { case ch <- v: default: }" on a channel of
\* capacity cap.
TrySend(ch, v, cap) == IF Len(ch) < cap THEN Append(ch, v) ELSE ch

\* ------------------------------------------------ hook registration ----
\* A Go map with no entries.
EmptyMap == [x \in {} |-> x]

\* The id fmt.Sprintf("hook_%d", n).
HookId(n) == <<"hook", n>>

\* Mutant of AddCallbackID: the counter is read and not advanced.
AddCallbackIDNoStep(next) == next

\* The counter after atomic.AddInt64(&q.nextCallbackID, 1).
AddCallbackID(next) == next + 1

\* NewQuery, inner loop over m.Hooks: every callback gets the id of the
\* counter's previous value and is stored under it in hookCallbacks (table).
RECURSIVE RegisterCallbacks(_, _, _, _)
RegisterCallbacks(cbs, next, table, ids) ==
    IF cbs = <<>> THEN [ids |-> ids, table |-> table, next |-> next]
    ELSE LET after == AddCallbackID(next)
             callbackID == HookId(after - 1)
         IN RegisterCallbacks(Tail(cbs), after,
                              (callbackID :> Head(cbs)) @@ table,
                              Append(ids, callbackID))

\* NewQuery, middle loop over the matchers of one event.
RECURSIVE RegisterMatchers(_, _, _, _)
RegisterMatchers(ms, next, table, list) ==
    IF ms = <<>> THEN [list |-> list, table |-> table, next |-> next]
    ELSE LET m == Head(ms)
             r == RegisterCallbacks(m.Hooks, next, table, <<>>)
         IN RegisterMatchers(Tail(ms), r.next, r.table,
                             Append(list, [Matcher |-> m.Matcher,
                                           CallbackIDs |-> r.ids,
                                           Timeout |-> m.Timeout]))

\* NewQuery, outer loop "for event, matchers := range opts.Hooks"; order is
\* the order in which Go's map iteration visits the events.
RECURSIVE RegisterEvents(_, _, _, _, _)
RegisterEvents(opts, order, next, table, hks) ==
    IF order = <<>> THEN [hooks |-> hks, hookCallbacks |-> table,
                          nextCallbackID |-> next]
    ELSE LET e == Head(order)
             r == RegisterMatchers(opts[e], next, table, <<>>)
         IN RegisterEvents(opts, Tail(order), r.next, r.table,
                           (e :> r.list) @@ hks)

\* The hook state NewQuery builds from opts.Hooks.
NewQueryHooks(opts, order) == RegisterEvents(opts, order, 0, EmptyMap, EmptyMap)

\* The orders in which a map iteration may visit the keys S.
IterationOrders(S) ==
    {f \in [1..Cardinality(S) -> S] : \A i, j \in 1..Cardinality(S) : i # j => f[i] # f[j]}

\* -------------------------------------------------- JSON and Go maps ----
\* A decoded JSON value that is null or an object (kv: its key/value pairs).
JNull == [t |-> "null", kv |-> {}]
JObj(kv) == [t |-> "object", kv |-> kv]
\* A Go map[string]any: the nil map, or a map holding kv.
NilMap == [nil |-> TRUE, kv |-> {}]
Map(kv) == [nil |-> FALSE, kv |-> kv]
\* The type assertion v.(map[string]any) with its ok result dropped.
AsMap(v) == IF v.t = "object" THEN Map(v.kv) ELSE NilMap
\* json.Marshal of a map[string]any value.
ToJSON(m) == IF m.nil THEN JNull ELSE JObj(m.kv)
\* A decoded JSON string: a value of Go type string.
JStr(s) == [t |-> "string", s |-> s]
\* The type assertion v.(*string) with its ok result dropped: the pointer
\* when the value's dynamic type is *string, nil (<<>>) for any other.
AsStringPtr(v) == IF v.t = "*string" THEN <<v.s>> ELSE <<>>
\* A decoded JSON array: a value of Go type []any.
JArr(items) == [t |-> "array", items |-> items]
\* The type assertion v.([]any) with its ok result dropped.
AsSlice(v) == IF v.t = "array" THEN v.items ELSE <<>>

\* ------------------------------------------- inbound: can_use_tool ----
\* What a permission callback returns: *PermissionResultAllow,
\* *PermissionResultDeny, an error, or a value of neither type (nil).
Allow(updatedInput, updatedPermissions) ==
    [kind |-> "allow", UpdatedInput |-> updatedInput,
     UpdatedPermissions |-> updatedPermissions, Message |-> "", Interrupt |-> FALSE]
Deny(message, interrupt) ==
    [kind |-> "deny", UpdatedInput |-> NilMap, UpdatedPermissions |-> <<>>,
     Message |-> message, Interrupt |-> interrupt]
CallbackError ==
    [kind |-> "error", UpdatedInput |-> NilMap, UpdatedPermissions |-> <<>>,
     Message |-> "callback failed", Interrupt |-> FALSE]
InvalidResult ==
    [kind |-> "invalid", UpdatedInput |-> NilMap, UpdatedPermissions |-> <<>>,
     Message |-> "", Interrupt |-> FALSE]

\* What a handler returns to handleControlRequest: (responseData, err), and
\* the user callbacks it invoked on the way.
HandlerOk(data, calls) == [data |-> <<data>>, err |-> <<>>, calls |-> calls]
HandlerErr(message, calls) == [data |-> <<>>, err |-> <<message>>, calls |-> calls]
\* A handler that does not return: it panicked.  No function of the SDK
\* recovers, so the panic ends the program.
HandlerPanic(message) ==
    [data |-> <<>>, err |-> <<>>, calls |-> <<>>, panic |-> <<message>>]
Panicked(r) == "panic" \in DOMAIN r

\* The closure Client.Connect installs as QueryOptions.CanUseTool: optsSet is
\* opts.CanUseTool != nil, decision what the user's callback returns.
ClientCanUseTool(optsSet, decision) ==
    IF ~optsSet THEN Allow(NilMap, <<>>) ELSE decision

\* q.canUseTool(ctx, toolName, input, permCtx) for the installed callback cb.
CallCanUseTool(cb, optsSet, decision) ==
    IF cb = "client" THEN ClientCanUseTool(optsSet, decision) ELSE decision

\* The user callbacks a call of q.canUseTool runs.
CanUseToolCalls(cb, optsSet) ==
    IF cb = "client" /\ ~optsSet THEN <<>> ELSE <<"canUseTool">>

\* Mutant of AllowResponse: updatedInput is set only when the callback
\* supplied one.
AllowResponseOmitsInput(r, input) ==
    [behavior |-> "allow",
     updatedInput |-> IF ~r.UpdatedInput.nil THEN <<ToJSON(r.UpdatedInput)>> ELSE <<>>,
     updatedPermissions |-> r.UpdatedPermissions,
     message |-> <<>>, interrupt |-> <<>>]

\* The responseData of an allow decision.
AllowResponse(r, input) ==
    [behavior |-> "allow",
     updatedInput |-> <<ToJSON(IF ~r.UpdatedInput.nil THEN r.UpdatedInput ELSE input)>>,
     updatedPermissions |-> r.UpdatedPermissions,
     message |-> <<>>, interrupt |-> <<>>]

\* The responseData of a deny decision.
DenyResponse(r) ==
    [behavior |-> "deny", updatedInput |-> <<>>, updatedPermissions |-> <<>>,
     message |-> <<r.Message>>,
     interrupt |-> IF r.Interrupt THEN <<TRUE>> ELSE <<>>]

\* handleToolPermission, 'suggestions, _ := request["permission_suggestions"]
\* .([]any)': a missing key or a value that is no array gives the nil slice.
Suggestions(request) ==
    IF "permission_suggestions" \in DOMAIN request
    THEN AsSlice(request.permission_suggestions)
    ELSE <<>>

\* handleToolPermission, the loop over the suggestions: an entry that is an
\* object is converted with 'sMap["type"].(string)', a type assertion
\* without the ok result: it panics when the entry has no string "type".
\* An entry that is no object is skipped.
SuggestionPanics(s) == s.t = "object" /\ ~\E p \in s.kv : p[1] = "type"

\* handleToolPermission, 'input, _ := request["input"].(map[string]any)': a
\* missing key reads as nil.
RequestInput(request) ==
    IF "input" \in DOMAIN request THEN AsMap(request.input) ELSE NilMap

\* Query.handleToolPermission; cb is q.canUseTool (<<>> when nil).
HandleToolPermission(cb, optsSet, request, decision) ==
    IF cb = <<>> THEN HandlerErr("canUseTool callback is not provided", <<>>)
    ELSE IF \E i \in 1..Len(Suggestions(request)) :
               SuggestionPanics(Suggestions(request)[i])
    THEN HandlerPanic("interface conversion: interface {} is nil, not string")
    ELSE LET input == RequestInput(request)
             result == CallCanUseTool(cb[1], optsSet, decision)
             calls == CanUseToolCalls(cb[1], optsSet)
         IN CASE result.kind = "error" -> HandlerErr(result.Message, calls)
              [] result.kind = "allow" -> HandlerOk(AllowResponse(result, input), calls)
              [] result.kind = "deny" -> HandlerOk(DenyResponse(result), calls)
              [] OTHER -> HandlerErr("invalid permission result type", calls)

\* ------------------------------------------- inbound: hook_callback ----
HookEvents == {"PreToolUse", "PostToolUse", "UserPromptSubmit", "Stop",
               "SubagentStop", "PreCompact"}

\* parseHookInput succeeds: the input is an object naming a known event.
ParseHookInputOk(input) == input.t = "object" /\ input.hook_event_name \in HookEvents

\* The message of parseHookInput's error.
ParseHookInputError(input) ==
    IF input.t # "object" THEN "invalid hook input format" ELSE "unknown hook event"

\* The JSON key hookOutputToMap gives each pointer field of HookOutput.
HookWireKey ==
    [Continue |-> "continue", SuppressOutput |-> "suppressOutput",
     StopReason |-> "stopReason", Decision |-> "decision",
     SystemMessage |-> "systemMessage", Reason |-> "reason",
     Async |-> "async", AsyncTimeout |-> "asyncTimeout"]

\* hookOutputToMap: nil gives {}; otherwise one key per non-nil pointer field
\* (output[1] maps the fields that are set to their values).
HookOutputToMap(output) ==
    IF output = <<>> THEN {}
    ELSE {<<HookWireKey[f], output[1][f]>> : f \in DOMAIN output[1]}

\* Mutant of HandleHookCallback: an id that is not in the table is answered
\* like a callback that returned no output.
HandleHookCallbackUnknownOk(table, request, outcome) ==
    LET callbackID == request.callback_id
    IN IF callbackID \notin DOMAIN table
       THEN HandlerOk([hook |-> {}], <<>>)
       ELSE IF ~ParseHookInputOk(request.input)
       THEN HandlerErr(ParseHookInputError(request.input), <<>>)
       ELSE IF outcome.kind = "hook_err"
       THEN HandlerErr("hook failed", <<table[callbackID]>>)
       ELSE HandlerOk([hook |-> HookOutputToMap(outcome.output)], <<table[callbackID]>>)

\* Mutant of HandleHookCallback: the callback invoked is one of the table,
\* whatever id the request names.
HandleHookCallbackAnyEntry(table, request, outcome) ==
    LET callbackID == request.callback_id
        other == CHOOSE id \in DOMAIN table : TRUE
    IN IF callbackID \notin DOMAIN table
       THEN HandlerErr("no hook callback found for ID", <<>>)
       ELSE IF ~ParseHookInputOk(request.input)
       THEN HandlerErr(ParseHookInputError(request.input), <<>>)
       ELSE IF outcome.kind = "hook_err"
       THEN HandlerErr("hook failed", <<table[other]>>)
       ELSE HandlerOk([hook |-> HookOutputToMap(outcome.output)], <<table[other]>>)

\* handleHookCallback, 'toolUseID, _ := request["tool_use_id"].(*string)':
\* the argument the callback is invoked with; a missing key reads as nil.
HookToolUseID(request) ==
    IF "tool_use_id" \in DOMAIN request THEN AsStringPtr(request.tool_use_id)
    ELSE <<>>

\* Query.handleHookCallback; outcome is what the user's callback returns:
\* [kind |-> "hook_ok", output |-> <<>> or <<fields>>] or [kind |-> "hook_err"].
HandleHookCallback(table, request, outcome) ==
    LET callbackID == request.callback_id
    IN IF callbackID \notin DOMAIN table
       THEN HandlerErr("no hook callback found for ID", <<>>)
       ELSE IF ~ParseHookInputOk(request.input)
       THEN HandlerErr(ParseHookInputError(request.input), <<>>)
       ELSE IF outcome.kind = "hook_err"
       THEN HandlerErr("hook failed", <<table[callbackID]>>)
       ELSE HandlerOk([hook |-> HookOutputToMap(outcome.output)], <<table[callbackID]>>)

\* --------------------------------------------- inbound: mcp_message ----
JsonRpcResult(id, result) ==
    [jsonrpc |-> "2.0", id |-> id, result |-> <<result>>, error |-> <<>>]
JsonRpcError(id, code, message) ==
    [jsonrpc |-> "2.0", id |-> id, result |-> <<>>,
     error |-> <<[code |-> code, message |-> message]>>]

\* Mutant of FindTool: a name no tool has selects the first tool.
RECURSIVE FindToolFallsBack(_, _, _)
FindToolFallsBack(tools, name, i) ==
    IF i > Len(tools) THEN 1
    ELSE IF tools[i].Name = name THEN i
    ELSE FindToolFallsBack(tools, name, i + 1)

\* The index of the first tool of tools named name, 0 when there is none
\* ("for _, tool := range h.Tools { if tool.Name == toolName").
RECURSIVE FindTool(_, _, _)
FindTool(tools, name, i) ==
    IF i > Len(tools) THEN 0
    ELSE IF tools[i].Name = name THEN i
    ELSE FindTool(tools, name, i + 1)

\* MCPServerHandler.HandleRequest: [response, calls]; outcome is what the
\* tool's handler returns, [kind |-> "tool_ok" | "tool_err", value |-> ...].
HandleRequest(h, message, outcome) ==
    LET id == message.id
        none == <<>>
    IN CASE message.method = "initialize" ->
              [response |-> JsonRpcResult(id, [protocolVersion |-> "2024-11-05",
                                               serverInfo |-> [name |-> h.Name,
                                                               version |-> h.Version]]),
               calls |-> none]
         [] message.method = "tools/list" ->
              [response |-> JsonRpcResult(id,
                   [tools |-> [i \in 1..Len(h.Tools) |->
                                  [name |-> h.Tools[i].Name,
                                   description |-> h.Tools[i].Description,
                                   inputSchema |-> h.Tools[i].InputSchema]]]),
               calls |-> none]
         [] message.method = "tools/call" ->
              LET i == FindTool(h.Tools, message.params.name, 1)
              IN IF i = 0
                 THEN [response |-> JsonRpcError(id, -32601, "Tool not found"),
                       calls |-> none]
                 ELSE [response |->
                           IF outcome.kind = "tool_err"
                           THEN JsonRpcError(id, -32603, outcome.value)
                           ELSE JsonRpcResult(id, outcome.value),
                       calls |-> <<<<h.Name, i, AsMap(message.params.arguments)>>>>]
         [] message.method = "notifications/initialized" ->
              [response |-> [jsonrpc |-> "2.0", id |-> <<>>, result |-> <<{}>>,
                             error |-> <<>>],
               calls |-> none]
         [] OTHER ->
              [response |-> JsonRpcError(id, -32601, "Method not found"),
               calls |-> none]

\* Query.handleMCPMessage.
HandleMCPMessage(servers, request, outcome) ==
    IF request.server_name \notin DOMAIN servers
    THEN HandlerOk([mcp_response |->
                       JsonRpcError(request.message.id, -32601, "Server not found")], <<>>)
    ELSE LET r == HandleRequest(servers[request.server_name], request.message, outcome)
         IN HandlerOk([mcp_response |-> r.response], r.calls)

\* ------------------------------------- inbound: handleControlRequest ----
\* The control_response line handleControlRequest marshals.
ErrorResponse(requestID, message) ==
    [type |-> "control_response",
     response |-> [subtype |-> "error", request_id |-> requestID,
                   error |-> <<message>>, response |-> <<>>]]
SuccessResponse(requestID, data) ==
    [type |-> "control_response",
     response |-> [subtype |-> "success", request_id |-> requestID,
                   error |-> <<>>, response |-> <<data>>]]

\* Mutant of DispatchControlRequest: a subtype the SDK does not handle is
\* answered like a handler that returned an empty payload.
DispatchControlRequestUnsupportedOk(msg, outcome) ==
    LET request == msg.request
    IN CASE request.subtype = "can_use_tool" ->
              HandleToolPermission(canUseTool, optsCanUseTool, request, outcome)
         [] request.subtype = "hook_callback" ->
              HandleHookCallback(hookCallbacks, request, outcome)
         [] request.subtype = "mcp_message" ->
              HandleMCPMessage(sdkMCPServers, request, outcome)
         [] OTHER -> HandlerOk([unsupported |-> {}], <<>>)

\* Query.handleControlRequest up to the write: the handler's result for the
\* request's subtype.
DispatchControlRequest(msg, outcome) ==
    LET request == msg.request
    IN CASE request.subtype = "can_use_tool" ->
              HandleToolPermission(canUseTool, optsCanUseTool, request, outcome)
         [] request.subtype = "hook_callback" ->
              HandleHookCallback(hookCallbacks, request, outcome)
         [] request.subtype = "mcp_message" ->
              HandleMCPMessage(sdkMCPServers, request, outcome)
         [] OTHER -> HandlerErr("unsupported control request subtype", <<>>)

\* A value encoding/json does not encode: a NaN or infinite float, a channel,
\* a func.  A callback can put one into the map it returns as UpdatedInput.
Unencodable == "unencodable"

\* json.Marshal(response) in handleControlRequest: it fails when the payload
\* holds a value that cannot be encoded.
CanMarshal(msg, r) ==
    ~ /\ r.err = <<>>
      /\ msg.request.subtype = "can_use_tool"
      /\ r.data[1].updatedInput # <<>>
      /\ \E kv \in r.data[1].updatedInput[1].kv : kv[2] = Unencodable

\* The line written when Marshal failed: its error is dropped and the nil
\* data, followed by the newline, is written.
EmptyLine ==
    [type |-> "", response |-> [subtype |-> "", request_id |-> <<>>,
                                error |-> <<>>, response |-> <<>>]]

\* The line handleControlRequest writes for a handler result r.
ControlResponseLine(msg, r) ==
    IF ~CanMarshal(msg, r) THEN EmptyLine
    ELSE IF r.err # <<>> THEN ErrorResponse(msg.request_id, r.err[1])
    ELSE SuccessResponse(msg.request_id, r.data[1])

\* ------------------------------------------------------------ reader ----
\* Mutant of Delete: the key stays in the map.
DeleteKeeps(f, k) == f

\* f without the key k (delete(m, k)).
Delete(f, k) == [x \in DOMAIN f \ {k} |-> f[x]]

\* Query.Start: go q.readMessages(ctx).
Start ==
    /\ readerPc = "idle"
    /\ readerPc' = "select"
    /\ UNCHANGED <<cfgVars, lockVars, recvVars, waitVars, initVars, writeVars, frameVars, pipeVars, emitted, readerMsg, messageChan, delivered, errorChan,
                   firstResultEvent, closeVars, callVars, inVars>>

\* readMessages, "case <-ctx.Done()" and "case <-q.ctx.Done()", in the loop's
\* select and in the select of the push: return (the deferred close of
\* messageChan runs, the object of a blocked push is dropped).
ReaderCtxDone ==
    /\ readerPc \in {"select", "push"}
    /\ ctxDone \/ qctxDone
    /\ readerPc' = "done"
    /\ readerMsg' = <<>>
    /\ UNCHANGED <<cfgVars, lockVars, recvVars, waitVars, initVars, writeVars, frameVars, pipeVars, emitted, messageChan, delivered, errorChan,
                   firstResultEvent, closeVars, callVars, inVars>>

\* readMessages, "case err, ok := <-errChan" with an error: every pending
\* request's channel is offered the error (non-blocking send), the error is
\* offered to errorChan, and the reader returns.
ReaderRecvErr(e) ==
    /\ readerPc = "select"
    /\ respChan' = [c \in Callers |->
                       IF \E id \in DOMAIN pendingResponses : pendingResponses[id] = c
                       THEN TrySend(respChan[c], ResultErr("transport", e), 1)
                       ELSE respChan[c]]
    /\ errorChan' = TrySend(errorChan, e, 1)
    /\ readerPc' = "done"
    /\ UNCHANGED <<cfgVars, lockVars, recvVars, waitVars, initVars, writeVars, frameVars, emitted, readerMsg, messageChan, delivered,
                   firstResultEvent, closeVars, written, pendingResponses,
                   requestCounter, callerPc, callerId, callerReq, callerCtx, callerRet, routed,
                   inVars>>

\* Mutant of ReaderEOF: a receive from a closed channel sends the reader
\* round its loop again.
ReaderEOFContinues ==
    /\ readerPc = "select"
    /\ transport.proc # "running" \/ ctxDone
    /\ readerPc' = "select"
    /\ UNCHANGED <<cfgVars, lockVars, recvVars, waitVars, initVars, writeVars, frameVars, emitted, readerMsg, messageChan, delivered, errorChan,
                   firstResultEvent, closeVars, callVars, inVars>>

\* readMessages, a closed errChan or msgChan (the transport's goroutine
\* ended: the process's stdout reached its end, or ctx was cancelled).
ReaderEOF ==
    /\ readerPc = "select"
    /\ transport.proc # "running" \/ ctxDone
    /\ readerPc' = "done"
    /\ UNCHANGED <<cfgVars, lockVars, recvVars, waitVars, initVars, writeVars, frameVars, emitted, readerMsg, messageChan, delivered, errorChan,
                   firstResultEvent, closeVars, callVars, inVars>>

\* Query.handleControlResponse: the pending entry is looked up and removed
\* under the lock, then the result is sent on its channel.  The send is a
\* blocking one: with the channel full the reader would stay in it.
HandleControlResponse(msg) ==
    LET response == msg.response
        requestID == response.request_id
    IN IF requestID \notin DOMAIN pendingResponses
       THEN UNCHANGED <<pendingResponses, respChan, readerPc, routed>>
       ELSE LET c == pendingResponses[requestID]
                result == IF response.subtype = "error"
                          THEN ResultErr("response", response.error[1])
                          ELSE ResultOk(response.response)
            IN /\ pendingResponses' = Delete(pendingResponses, requestID)
               /\ routed' = routed \cup {[seq |-> msg.seq, c |-> c]}
               /\ IF Len(respChan[c]) < 1
                  THEN /\ respChan' = [respChan EXCEPT ![c] = Append(@, result)]
                       /\ UNCHANGED readerPc
                  ELSE /\ readerPc' = "blocked"
                       /\ UNCHANGED respChan

\* readMessages, "switch msgType": where an object of that type goes.
\* Mutant of Route: control_cancel_request has no case and falls through to
\* the stream.
RouteWithoutCancelCase(msgType) ==
    CASE msgType = "control_response" -> "response"
      [] msgType = "control_request" -> "request"
      [] OTHER -> "stream"

Route(msgType) ==
    CASE msgType = "control_response" -> "response"
      [] msgType = "control_request" -> "request"
      [] msgType = "control_cancel_request" -> "cancel"
      [] OTHER -> "stream"

\* Mutant of SpawnHandler: handleControlRequest is called, not started with
\* `go`: the reader stays in the call.
SpawnHandlerInline(o) ==
    /\ handlers' = handlers \cup {o}
    /\ readerPc' = "handling"

\* readMessages, "go q.handleControlRequest(ctx, msg); continue": the handler
\* gets a goroutine of its own and the reader goes on.
SpawnHandler(o) ==
    /\ handlers' = handlers \cup {o}
    /\ UNCHANGED readerPc

\* Mutant of SignalFirstResult: a result read after the first one takes the
\* signal back.
SignalToggles(ev) == IF ev THEN FALSE ELSE TRUE

\* readMessages, case "result": firstResultEvent (TRUE for closed) is closed
\* in the default case of a select that first tries to receive from it, so
\* a closed channel is never closed again.
SignalFirstResult(ev) == IF ev THEN ev ELSE TRUE

\* readMessages, "case msg, ok := <-msgChan" with an object: o is the next
\* object of the transport's stream.
ReaderRecvMsg(o) ==
    /\ readerPc = "select"
    /\ Len(emitted) < MaxEmit
    /\ o.seq = Len(emitted) + 1
    /\ emitted' = Append(emitted, o)
    /\ IF closed
       THEN /\ readerPc' = "done"
            /\ UNCHANGED <<readerMsg, firstResultEvent, pendingResponses, respChan,
                           routed, handlers>>
       ELSE CASE Route(o.type) = "response" ->
                   /\ HandleControlResponse(o)
                   /\ UNCHANGED <<readerMsg, firstResultEvent, handlers>>
              [] Route(o.type) = "request" ->
                   /\ SpawnHandler(o)
                   /\ UNCHANGED <<readerMsg, firstResultEvent,
                                  pendingResponses, respChan, routed>>
              [] Route(o.type) = "cancel" ->
                   UNCHANGED <<readerPc, readerMsg, firstResultEvent,
                               pendingResponses, respChan, routed, handlers>>
              [] OTHER ->
                   /\ firstResultEvent' = IF o.type = "result"
                                           THEN SignalFirstResult(firstResultEvent)
                                           ELSE firstResultEvent
                   /\ readerPc' = "push"
                   /\ readerMsg' = <<o>>
                   /\ UNCHANGED <<pendingResponses, respChan, routed, handlers>>
    /\ UNCHANGED <<cfgVars, lockVars, recvVars, waitVars, initVars, writeVars, frameVars, messageChan, delivered, errorChan, closeVars, written,
                   requestCounter, callerPc, callerId, callerReq, callerCtx, callerRet, invoked,
                   hookCalls>>

\* Mutant of ChanSend: the object is put in front of the buffered ones.
ChanSendFront(ch, v) == <<v>> \o ch

\* A send on a buffered channel that has room: v goes behind what is buffered.
ChanSend(ch, v) == Append(ch, v)

\* Mutant of ReaderPush: the push does not wait for room; with the channel
\* full the object is let go.
ReaderPushOrDrop ==
    /\ readerPc = "push"
    /\ messageChan' = IF Len(messageChan) < ChanCap
                      THEN ChanSend(messageChan, readerMsg[1])
                      ELSE messageChan
    /\ readerMsg' = <<>>
    /\ readerPc' = "select"
    /\ UNCHANGED <<cfgVars, lockVars, recvVars, waitVars, initVars, writeVars, frameVars, pipeVars, emitted, delivered, errorChan,
                   firstResultEvent, closeVars, callVars, inVars>>

\* readMessages, "case q.messageChan <- msg": the push, once the consumer
\* channel has room.
ReaderPush ==
    /\ readerPc = "push"
    /\ Len(messageChan) < ChanCap
    /\ messageChan' = ChanSend(messageChan, readerMsg[1])
    /\ readerMsg' = <<>>
    /\ readerPc' = "select"
    /\ UNCHANGED <<cfgVars, lockVars, recvVars, waitVars, initVars, writeVars, frameVars, pipeVars, emitted, delivered, errorChan, firstResultEvent,
                   closeVars, callVars, inVars>>

\* The application receives from the channel Query.ReceiveMessages returned.
ConsumerRecv ==
    /\ messageChan # <<>>
    /\ delivered' = Append(delivered, Head(messageChan))
    /\ messageChan' = Tail(messageChan)
    /\ UNCHANGED <<cfgVars, lockVars, recvVars, waitVars, initVars, writeVars, frameVars, pipeVars, emitted, readerPc, readerMsg, errorChan,
                   firstResultEvent, closeVars, callVars, inVars>>

\* ------------------------------------------ outbound control requests ----
\* Mutant of RequestID: the counter is left out of the id.
RequestIDRandOnly(counter, rand) == <<1, rand>>

\* requestID := fmt.Sprintf("req_%d_%s", counter, hex.EncodeToString(randBytes)).
RequestID(counter, rand) == <<counter, rand>>

\* What sendControlRequest returned: kind is "none" while it has not,
\* "usage" (not streaming), "write" (Write failed), "timeout" (ctx done)
\* or "result" (the ControlResult taken from respChan).
NoReturn == [kind |-> "none", result |-> ResultOk(<<>>)]
Returned(kind, result) == [kind |-> kind, result |-> result]

\* Mutant of Deregister: the entry stays in the map.
DeregisterNothing(pending, requestID) == pending

\* Mutant of Deregister: the whole map is cleared.
DeregisterAll(pending, requestID) == EmptyMap

\* sendControlRequest's "delete(q.pendingResponses, requestID)" under the lock,
\* on a failed write and on the caller's context being done.
Deregister(pending, requestID) == Delete(pending, requestID)

\* The control_request line sendControlRequest marshals.
ControlRequestLine(requestID, request) ==
    [type |-> "control_request", request_id |-> requestID, request |-> request]

\* The request maps of Query.Interrupt, Query.SetPermissionMode and
\* Query.SetModel (with a model and with nil): each passes its map to
\* sendControlRequest and returns the error it gets.
Interrupt == [subtype |-> "interrupt"]
SetPermissionMode(mode) == [subtype |-> "set_permission_mode", mode |-> mode]
SetModel(model) ==
    IF model = <<>> THEN [subtype |-> "set_model"]
    ELSE [subtype |-> "set_model", model |-> model[1]]
ApiRequests == {Interrupt, SetPermissionMode("plan"), SetModel(<<>>), SetModel(<<"m">>)}

\* Mutant of CallerRegister: the mode is not looked at.
CallerRegisterAnyMode(c, request) ==
    /\ callerPc[c] = "idle"
    /\ callerReq' = [callerReq EXCEPT ![c] = request]
    /\ \E rand \in RandHex :
          LET counter == requestCounter + 1
              requestID == RequestID(counter, rand)
          IN /\ requestCounter' = counter
             /\ pendingResponses' = (requestID :> c) @@ pendingResponses
             /\ callerId' = [callerId EXCEPT ![c] = requestID]
             /\ callerPc' = [callerPc EXCEPT ![c] = "registered"]
             /\ UNCHANGED callerRet
    /\ UNCHANGED <<cfgVars, lockVars, recvVars, waitVars, initVars, writeVars, frameVars, pipeVars, streamVars, closeVars, written,
                   callerCtx, respChan, routed, inVars>>

\* sendControlRequest up to the registration: the streaming-mode check, the
\* id from the counter and the random bytes, the entry in pendingResponses.
CallerRegister(c, request) ==
    /\ callerPc[c] = "idle"
    /\ callerReq' = [callerReq EXCEPT ![c] = request]
    /\ IF ~isStreamingMode
       THEN /\ callerPc' = [callerPc EXCEPT ![c] = "done"]
            /\ callerRet' = [callerRet EXCEPT ![c] = Returned("usage", ResultOk(<<>>))]
            /\ UNCHANGED <<requestCounter, pendingResponses, callerId>>
       ELSE \E rand \in RandHex :
               LET counter == requestCounter + 1
                   requestID == RequestID(counter, rand)
               IN /\ requestCounter' = counter
                  /\ pendingResponses' = (requestID :> c) @@ pendingResponses
                  /\ callerId' = [callerId EXCEPT ![c] = requestID]
                  /\ callerPc' = [callerPc EXCEPT ![c] = "registered"]
                  /\ UNCHANGED callerRet
    /\ UNCHANGED <<cfgVars, lockVars, recvVars, waitVars, initVars, writeVars, frameVars, pipeVars, streamVars, closeVars, written, callerCtx, respChan,
                   routed, inVars>>

\* sendControlRequest, q.transport.Write: on failure the entry is removed and
\* the error returned.
CallerWrite(c) ==
    /\ callerPc[c] = "registered"
    /\ \E w \in TransportWrite(transport) :
          /\ transport' = w.t
          /\ IF w.ok
             THEN /\ written' = Append(written,
                          ControlRequestLine(callerId[c], callerReq[c]))
                  /\ callerPc' = [callerPc EXCEPT ![c] = "waiting"]
                  /\ UNCHANGED <<pendingResponses, callerRet>>
             ELSE /\ pendingResponses' = Deregister(pendingResponses, callerId[c])
                  /\ callerPc' = [callerPc EXCEPT ![c] = "done"]
                  /\ callerRet' = [callerRet EXCEPT ![c] = Returned("write", ResultOk(<<>>))]
                  /\ UNCHANGED written
    /\ UNCHANGED <<cfgVars, lockVars, recvVars, waitVars, initVars, writeVars, frameVars, pipeVars, streamVars, closed, qctxDone, ctxDone, closeCalls, client,
                   requestCounter, callerId, callerReq, callerCtx, respChan, routed, inVars>>

\* The caller's context expires or is cancelled.
CallerCtxDone(c) ==
    /\ callerPc[c] \in {"registered", "waiting"}
    /\ ~callerCtx[c]
    /\ callerCtx' = [callerCtx EXCEPT ![c] = TRUE]
    /\ UNCHANGED <<cfgVars, lockVars, recvVars, waitVars, initVars, writeVars, frameVars, pipeVars, streamVars, closeVars, written, pendingResponses,
                   requestCounter, callerPc, callerId, callerReq, callerRet, respChan, routed,
                   inVars>>

\* sendControlRequest, "case <-ctx.Done()": the entry is removed, a
\* TimeoutError returned.
CallerTimeout(c) ==
    /\ callerPc[c] = "waiting"
    /\ callerCtx[c]
    /\ pendingResponses' = Deregister(pendingResponses, callerId[c])
    /\ callerPc' = [callerPc EXCEPT ![c] = "done"]
    /\ callerRet' = [callerRet EXCEPT ![c] = Returned("timeout", ResultOk(<<>>))]
    /\ UNCHANGED <<cfgVars, lockVars, recvVars, waitVars, initVars, writeVars, frameVars, pipeVars, streamVars, closeVars, written, requestCounter, callerId, callerReq,
                   callerCtx, respChan, routed, inVars>>

\* sendControlRequest, "case result := <-respChan".
CallerRecv(c) ==
    /\ callerPc[c] = "waiting"
    /\ respChan[c] # <<>>
    /\ callerRet' = [callerRet EXCEPT ![c] = Returned("result", Head(respChan[c]))]
    /\ respChan' = [respChan EXCEPT ![c] = Tail(@)]
    /\ callerPc' = [callerPc EXCEPT ![c] = "done"]
    /\ UNCHANGED <<cfgVars, lockVars, recvVars, waitVars, initVars, writeVars, frameVars, pipeVars, streamVars, closeVars, written, pendingResponses,
                   requestCounter, callerId, callerReq, callerCtx, routed, inVars>>

\* ------------------------------------------- inbound control requests ----
\* The outcomes a user callback may have for the request h, among outs =
\* [perm, hook, tool]: the sets of permission decisions, hook outcomes and
\* tool outcomes of the environment.
OutcomesFor(h, outs) ==
    CASE h.request.subtype = "can_use_tool" -> outs.perm
      [] h.request.subtype = "hook_callback" -> outs.hook
      [] h.request.subtype = "mcp_message" -> outs.tool
      [] OTHER -> outs.perm

\* Query.handleControlRequest, run by the goroutine readMessages started for
\* the request h: the handler for the subtype runs (the user's callback
\* returning outcome), and the control_response is written to the transport;
\* the result of the Write is ignored.  A handler that panics ends the
\* program: the reader and every other goroutine stop, nothing is written.
HandleControlRequest(h, outcome) ==
    /\ h \in handlers
    /\ LET r == DispatchControlRequest(h, outcome)
       IN IF Panicked(r)
          THEN /\ readerPc' = "crashed"
               /\ handlers' = {}
               /\ UNCHANGED <<invoked, hookCalls, transport, written>>
          ELSE /\ invoked' = invoked \cup {[seq |-> h.seq, cb |-> r.calls[n], out |-> outcome,
                                              n |-> n] : n \in 1..Len(r.calls)}
               /\ hookCalls' = hookCalls \cup
                     (IF h.request.subtype = "hook_callback" /\ r.calls # <<>>
                      THEN {[seq |-> h.seq, toolUseID |-> HookToolUseID(h.request)]}
                      ELSE {})
               /\ \E w \in TransportWrite(transport) :
                     /\ transport' = w.t
                     /\ written' = IF w.ok THEN Append(written, ControlResponseLine(h, r))
                                   ELSE written
               /\ handlers' = handlers \ {h}
               /\ UNCHANGED readerPc
    /\ UNCHANGED <<cfgVars, lockVars, recvVars, waitVars, initVars, writeVars, frameVars, pipeVars,
                   emitted, readerMsg, messageChan, delivered, errorChan, firstResultEvent,
                   closed, qctxDone, ctxDone, closeCalls, client,
                   pendingResponses, requestCounter, callerPc, callerId, callerReq, callerCtx,
                   callerRet, respChan, routed>>

\* ------------------------------------------------ close and cancellation ----
\* One call of Close: the object it was called on and the error it returned
\* (<<>> for nil).
CloseCall(on, err) == [on |-> on, err |-> err]

\* Query.Close: closed.Store(true), q.cancel(), transport.Close(), whose
\* error it returns.
QueryClose ==
    /\ client = <<>>
    /\ Len(closeCalls) < MaxClose
    /\ closeCalls' = Append(closeCalls, CloseCall("Query", CloseErr(transport)))
    /\ closed' = TRUE
    /\ qctxDone' = TRUE
    /\ transport' = TransportClose(transport)
    /\ UNCHANGED <<cfgVars, lockVars, recvVars, waitVars, initVars, writeVars, frameVars, pipeVars, streamVars, ctxDone, client, callVars, inVars>>

\* SubprocessTransport.Close called on the transport itself.
TransportCloseCall ==
    /\ client = <<>>
    /\ Len(closeCalls) < MaxClose
    /\ closeCalls' = Append(closeCalls, CloseCall("Transport", CloseErr(transport)))
    /\ transport' = TransportClose(transport)
    /\ UNCHANGED <<cfgVars, lockVars, recvVars, waitVars, initVars, writeVars, frameVars, pipeVars, streamVars, closed, qctxDone, ctxDone, client, callVars,
                   inVars>>

\* Client.Close once it has c.mu: connected is cleared; a non-nil query is
\* closed (which closes the transport) and dropped; a non-nil transport is
\* closed and dropped; the deferred Unlock runs.  Connect holds c.mu until
\* it has started the reader, so Close runs after Start.
ClientCloseLocked ==
    /\ client # <<>>
    /\ readerPc # "idle"
    /\ clientMu = <<>>
    /\ Len(closeCalls) < MaxClose
    /\ closeCalls' = Append(closeCalls, CloseCall("Client", <<>>))
    /\ LET c == client[1]
           t1 == IF c.query THEN TransportClose(transport) ELSE transport
       IN /\ closed' = (closed \/ c.query)
          /\ qctxDone' = (qctxDone \/ c.query)
          /\ transport' = IF c.transport THEN TransportClose(t1) ELSE t1
          /\ client' = <<[connected |-> FALSE, query |-> FALSE, transport |-> FALSE]>>
    /\ UNCHANGED <<cfgVars, clientMu, recvVars, waitVars, initVars, writeVars, frameVars, pipeVars, streamVars, ctxDone, callVars, inVars>>

\* A call of Client.Close that finds c.mu free.
ClientClose ==
    /\ clientClosePc = "idle"
    /\ ClientCloseLocked
    /\ UNCHANGED clientClosePc

\* The context given to Start is cancelled.
CtxCancel ==
    /\ ~ctxDone
    /\ ctxDone' = TRUE
    /\ UNCHANGED <<cfgVars, lockVars, recvVars, waitVars, initVars, writeVars, frameVars, pipeVars, streamVars, closed, qctxDone, transport, closeCalls,
                   client, callVars, inVars>>

\* The process exits by itself.
ProcessExit ==
    /\ transport.proc = "running"
    /\ transport' = [transport EXCEPT !.proc = "exited"]
    /\ UNCHANGED <<cfgVars, lockVars, recvVars, waitVars, initVars, writeVars, frameVars, pipeVars, streamVars, closed, qctxDone, ctxDone, closeCalls,
                   client, callVars, inVars>>

\* ----------------------------------------------------- environments ----
\* A user's hook configuration (QueryOptions.Hooks).
HookMatcher(matcher, callbacks) ==
    [Matcher |-> matcher, Hooks |-> callbacks, Timeout |-> <<>>]

\* One event with two matchers of one callback each.
EngineHooks == [e \in {"PreToolUse"} |->
                   <<HookMatcher(<<"Bash">>, <<"cbA">>), HookMatcher(<<>>, <<"cbB">>)>>]

\* The input object of the tool whose use the process asks about.
ToolInput == JObj({<<"command", "ls">>})

\* can_use_tool and hook_callback requests, and one of a subtype the engine
\* does not know.
PermissionRequest(input) ==
    [subtype |-> "can_use_tool", tool_name |-> "Bash", input |-> input]
HookRequest(callbackID, input) ==
    [subtype |-> "hook_callback", callback_id |-> callbackID, input |-> input]
HookInput(event) == [t |-> "object", hook_event_name |-> event]
UnsupportedRequest == [subtype |-> "bogus"]

\* The ids of the control requests written to the process so far.
WrittenIds == {written[i].request_id : i \in {j \in 1..Len(written) :
                                                 written[j].type = "control_request"}}

\* The state after NewQuery on a connected transport, servers being
\* QueryOptions.SDKMCPServers.
InitQueryServers(streaming, cb, optsSet, hookOpts, order, cl, servers) ==
    /\ isStreamingMode = streaming
    /\ canUseTool = cb
    /\ optsCanUseTool = optsSet
    /\ optsHooks = hookOpts
    /\ LET h == NewQueryHooks(hookOpts, order)
       IN /\ hooks = h.hooks
          /\ hookCallbacks = h.hookCallbacks
    /\ sdkMCPServers = servers
    /\ client = cl
    /\ emitted = <<>>
    /\ readerPc = "idle"
    /\ readerMsg = <<>>
    /\ messageChan = <<>>
    /\ delivered = <<>>
    /\ errorChan = <<>>
    /\ firstResultEvent = FALSE
    /\ closed = FALSE
    /\ qctxDone = FALSE
    /\ ctxDone = FALSE
    /\ transport = TransportConnected(streaming)
    /\ closeCalls = <<>>
    /\ written = <<>>
    /\ pendingResponses = EmptyMap
    /\ requestCounter = 0
    /\ callerPc = [c \in Callers |-> "idle"]
    /\ callerId = [c \in Callers |-> StaleId]
    /\ callerReq = [c \in Callers |-> <<>>]
    /\ callerCtx = [c \in Callers |-> FALSE]
    /\ callerRet = [c \in Callers |-> NoReturn]
    /\ respChan = [c \in Callers |-> <<>>]
    /\ routed = {}
    /\ handlers = {}
    /\ invoked = {}
    /\ hookCalls = {}
    /\ printed = <<>>
    /\ line = <<>>
    /\ nScanned = 0
    /\ jsonBuffer = <<>>
    /\ framerPc = "scan"
    /\ framerMsg = <<>>
    /\ tMsgChan = <<>>
    /\ tErrChan = <<>>
    /\ loopPc = IF streaming THEN "off" ELSE "select"
    /\ queryOut = <<>>
    /\ waitRet = "none"
    /\ initialized = FALSE
    /\ initResult = <<>>
    /\ writeMu = <<>>
    /\ stdinPipe = <<>>
    /\ writerPc = [w \in Writers |-> "idle"]
    /\ writerPart = [w \in Writers |-> 0]
    /\ closePc = "idle"
    /\ recvKind = "none"
    /\ recvPc = "off"
    /\ recvMsg = <<>>
    /\ msgChan = <<>>
    /\ yielded = <<>>
    /\ clientMu = <<>>
    /\ clientClosePc = "idle"

\* The state after NewQuery without SDK MCP servers.
InitQuery(streaming, cb, optsSet, hookOpts, order, cl) ==
    InitQueryServers(streaming, cb, optsSet, hookOpts, order, cl, EmptyMap)

\* ---- Spec: the reader, the consumer and the inbound handlers of a
\* streaming Query used directly (protocol.NewQuery); nobody sends outbound
\* control requests.
StreamObjects(seq) ==
    {ConvObject(t, seq) : t \in {"assistant", "result"}}
    \cup {ResponseObject(seq, StaleId, "success")}
    \cup {RequestObject(seq, r) :
             r \in {PermissionRequest(ToolInput),
                    HookRequest(HookId(0), HookInput("PreToolUse"))}}
    \cup {CancelObject(seq)}

StreamOutcomes ==
    [perm |-> {Allow(NilMap, <<>>), Deny("no", FALSE)},
     hook |-> {[kind |-> "hook_ok", output |-> <<>>]},
     tool |-> {}]

Init == InitQuery(TRUE, <<"user">>, TRUE, EngineHooks, <<"PreToolUse">>, <<>>)

Next ==
    \/ Start
    \/ ReaderCtxDone
    \/ ReaderRecvErr("process") /\ UNCHANGED pipeVars
    \/ ReaderEOF /\ UNCHANGED pipeVars
    \/ \E o \in StreamObjects(Len(emitted) + 1) : ReaderRecvMsg(o) /\ UNCHANGED pipeVars
    \/ ReaderPush
    \/ ConsumerRecv
    \/ \E h \in handlers : \E d \in OutcomesFor(h, StreamOutcomes) : HandleControlRequest(h, d)
    \/ ~closed /\ QueryClose
    \/ CtxCancel
    \/ ProcessExit

Spec == Init /\ [][Next]_vars

\* ---- SpecOutbound: callers of sendControlRequest on a streaming Query, the
\* reader, and a process that answers requests it was sent: any request
\* written so far, in any order, more than once, and after the caller gave up.
OutboundObjects(seq) ==
    {ResponseObject(seq, id, subtype) :
        id \in WrittenIds, subtype \in {"success", "error"}}

InitOutbound == InitQuery(TRUE, <<>>, FALSE, EmptyMap, <<>>, <<>>)

NextOutbound ==
    \/ Start
    \/ ReaderCtxDone
    \/ ReaderRecvErr("process") /\ UNCHANGED pipeVars
    \/ ReaderEOF /\ UNCHANGED pipeVars
    \/ \E o \in OutboundObjects(Len(emitted) + 1) :
          Len(emitted) < MaxResponses /\ ReaderRecvMsg(o) /\ UNCHANGED pipeVars
    \/ \E c \in Callers : CallerRegister(c, Interrupt)
    \/ \E c \in Callers : CallerWrite(c)
    \/ \E c \in Callers : CallerCtxDone(c)
    \/ \E c \in Callers : CallerTimeout(c)
    \/ \E c \in Callers : CallerRecv(c)
    \/ ~closed /\ QueryClose
    \/ ProcessExit

SpecOutbound == InitOutbound /\ [][NextOutbound]_vars

\* ---- SpecClose: a connection whose user configured no permission callback,
\* either a Query built with CanUseTool nil or a Client connected with
\* AgentOptions.CanUseTool unset, on which Close is called up to MaxClose
\* times while the process sends messages and asks for permissions.
ClientConnected == [connected |-> TRUE, query |-> TRUE, transport |-> TRUE]

CloseObjects(seq) ==
    {ConvObject("assistant", seq), RequestObject(seq, PermissionRequest(ToolInput))}

\* No user callback runs in these configurations: the outcome is not used.
CloseOutcomes == [perm |-> {InvalidResult}, hook |-> {}, tool |-> {}]

InitClose ==
    \/ InitQuery(TRUE, <<>>, FALSE, EmptyMap, <<>>, <<>>)
    \/ InitQuery(TRUE, <<"client">>, FALSE, EmptyMap, <<>>, <<ClientConnected>>)

NextClose ==
    \/ Start
    \/ ReaderCtxDone
    \/ ReaderEOF /\ UNCHANGED pipeVars
    \/ \E o \in CloseObjects(Len(emitted) + 1) : ReaderRecvMsg(o) /\ UNCHANGED pipeVars
    \/ ReaderPush
    \/ ConsumerRecv
    \/ \E h \in handlers : \E d \in OutcomesFor(h, CloseOutcomes) : HandleControlRequest(h, d)
    \/ QueryClose
    \/ TransportCloseCall
    \/ ClientClose

SpecClose == InitClose /\ [][NextClose]_vars

\* ---- SpecPerm: a connection with a permission callback (a Query built with
\* one, or a Client whose AgentOptions.CanUseTool is set); the process asks
\* for permissions and the callback decides in every way it can.
\* The inputs a can_use_tool request carries: null or an object.
PermInputs == {JNull, JObj({}), JObj({<<"command", "ls">>})}

PermObjects(seq) == {RequestObject(seq, PermissionRequest(in)) : in \in PermInputs}

PermOutcomes ==
    [perm |-> {Allow(NilMap, <<>>), Allow(Map({}), <<>>),
               Allow(Map({<<"command", "pwd">>}), <<"addRules">>),
               Deny("no", FALSE), Deny("", TRUE), CallbackError, InvalidResult},
     hook |-> {}, tool |-> {}]

InitPerm ==
    \/ InitQuery(TRUE, <<"user">>, TRUE, EmptyMap, <<>>, <<>>)
    \/ InitQuery(TRUE, <<"client">>, TRUE, EmptyMap, <<>>, <<ClientConnected>>)

NextPerm ==
    \/ Start
    \/ ReaderEOF /\ UNCHANGED pipeVars
    \/ \E o \in PermObjects(Len(emitted) + 1) :
          Len(emitted) < MaxPermRequests /\ ReaderRecvMsg(o) /\ UNCHANGED pipeVars
    \/ \E h \in handlers : \E d \in OutcomesFor(h, PermOutcomes) : HandleControlRequest(h, d)
    \/ ProcessExit

SpecPerm == InitPerm /\ [][NextPerm]_vars

\* ---- SpecHooks: Queries built from several hook configurations, in every
\* order Go may iterate over the configured events; the process invokes
\* hooks by id, registered or not, while one caller has an outbound request
\* and the connection is closed at some point.
HookConfigs ==
    {[e \in {"PreToolUse", "PostToolUse"} |->
         IF e = "PreToolUse"
         THEN <<HookMatcher(<<"Bash">>, <<"cbA", "cbB">>), HookMatcher(<<>>, <<"cbA">>)>>
         ELSE <<HookMatcher(<<>>, <<"cbC">>)>>],
     EngineHooks,
     [e \in {"Stop"} |-> <<HookMatcher(<<>>, <<>>)>>]}

\* The id NewQuery would hand out next: one it never registered.
UnregisteredId == HookId(Cardinality(DOMAIN hookCallbacks))

HookObjects(seq) ==
    {RequestObject(seq, HookRequest(id, HookInput("PreToolUse"))) :
        id \in {HookId(0), HookId(1), UnregisteredId}}
    \cup {RequestObject(seq, HookRequest(HookId(0), HookInput("NoSuchEvent")))}
    \cup {ResponseObject(seq, id, "success") : id \in WrittenIds}

HookOutcomes ==
    [perm |-> {},
     hook |-> {[kind |-> "hook_ok", output |-> <<>>],
               [kind |-> "hook_ok", output |-> <<[Continue |-> "false"]>>],
               [kind |-> "hook_err", output |-> <<>>]},
     tool |-> {}]

InitHooks ==
    \E cfg \in HookConfigs : \E order \in IterationOrders(DOMAIN cfg) :
        InitQuery(TRUE, <<>>, FALSE, cfg, order, <<>>)

NextHooks ==
    \/ Start
    \/ ReaderCtxDone
    \/ \E o \in HookObjects(Len(emitted) + 1) :
          Len(emitted) < MaxHookEmit /\ ReaderRecvMsg(o) /\ UNCHANGED pipeVars
    \/ \E h \in handlers : \E d \in OutcomesFor(h, HookOutcomes) : HandleControlRequest(h, d)
    \/ CallerRegister("c1", Interrupt)
    \/ CallerWrite("c1")
    \/ CallerRecv("c1")
    \/ ~closed /\ QueryClose

SpecHooks == InitHooks /\ [][NextHooks]_vars

\* ================================================================ framing ====
\* SubprocessTransport.ReadMessages: the goroutine that turns the lines of the
\* process's stdout into decoded objects on msgChan and errors on errChan.

MaxBufferSize == 3      \* t.maxBufferSize (1 MiB by default), scaled down
TMsgChanCap == 2        \* capacity of msgChan (100 in the code), scaled down
MaxLines == 4           \* lines of stdout in a run
MaxParts == 3           \* physical lines one object is split across

LineSizes == 1..MaxBufferSize
FrameTypes == {"assistant", "bogus"}

\* A line of stdout after TrimSpace: fragment `part` of the `of` lines that
\* object `obj` is printed on, `size` bytes long.  Blank is a line that
\* TrimSpace leaves empty.
Blank == [obj |-> 0, part |-> 0, of |-> 0, size |-> 0, type |-> ""]

\* What the process can print next: the next line of the object it is in the
\* middle of, the first line of its next object, or a blank line.
NextLines(f) ==
    LET last == f[1]
    IN  {Blank} \cup
        IF f # <<>> /\ last.part < last.of
        THEN {[obj |-> last.obj, part |-> last.part + 1, of |-> last.of,
               size |-> s, type |-> last.type] : s \in LineSizes}
        ELSE {[obj |-> (IF f = <<>> THEN 1 ELSE last.obj + 1), part |-> 1,
               of |-> n, size |-> s, type |-> t] :
                  n \in 1..MaxParts, s \in LineSizes, t \in FrameTypes}

RECURSIVE BufferLen(_)
BufferLen(buf) == IF buf = <<>> THEN 0 ELSE Head(buf).size + BufferLen(Tail(buf))

\* json.Unmarshal of the accumulated text into a map: it succeeds when the
\* text is exactly the lines of one object, first to last.
Complete(buf) ==
    /\ buf # <<>>
    /\ Len(buf) = buf[1].of
    /\ \A i \in 1..Len(buf) : buf[i].obj = buf[1].obj /\ buf[i].part = i
UnmarshalNeverFails(buf) ==
    IF buf # <<>> THEN <<[type |-> buf[1].type, obj |-> buf[1].obj]>> ELSE <<>>
Unmarshal(buf) ==
    IF Complete(buf) THEN <<[type |-> buf[1].type, obj |-> buf[1].obj]>> ELSE <<>>

\* bufio.Scanner with a buffer of maxBufferSize bytes: a line that does not
\* fit makes Scan return false with ErrTooLong.
ScanTooLong(l) == l.size >= MaxBufferSize

\* The goroutine exists once ReadMessages was called: in streaming mode by
\* readMessages, in one-shot mode by Query() before its loop.
FramerStarted == isStreamingMode => readerPc # "idle"

\* One iteration of `for scanner.Scan()`, up to the point where it sends; a
\* line is scanned as the running process prints it.
FramerScan(l) ==
    /\ framerPc = "scan"
    /\ FramerStarted
    /\ transport.proc = "running"
    /\ nScanned < MaxLines
    /\ l \in NextLines(printed)
    /\ printed' = IF l = Blank THEN printed ELSE <<l>>
    /\ line' = <<l>>
    /\ nScanned' = nScanned + 1
    /\ IF ScanTooLong(l)
       THEN /\ framerPc' = "sendScanErr"
            /\ UNCHANGED <<jsonBuffer, framerMsg>>
       ELSE IF ctxDone
       THEN /\ framerPc' = "done"
            /\ UNCHANGED <<jsonBuffer, framerMsg>>
       ELSE IF l = Blank
       THEN UNCHANGED <<jsonBuffer, framerPc, framerMsg>>
       ELSE LET buf == Append(jsonBuffer, l)
            IN  IF BufferLen(buf) > MaxBufferSize
                THEN /\ jsonBuffer' = buf
                     /\ framerPc' = "sendDecodeErr"
                     /\ UNCHANGED framerMsg
                ELSE IF Unmarshal(buf) = <<>>
                THEN /\ jsonBuffer' = buf
                     /\ UNCHANGED <<framerPc, framerMsg>>
                ELSE /\ jsonBuffer' = <<>>
                     /\ framerMsg' = Unmarshal(buf)
                     /\ framerPc' = "sendMsg"
    /\ UNCHANGED <<cfgVars, lockVars, recvVars, waitVars, initVars, writeVars, streamVars, closeVars, callVars, inVars, pipeVars,
                   loopPc, queryOut>>

\* errChan <- NewCLIJSONDecodeError(...); jsonBuffer.Reset(); continue
FramerSendDecodeErr ==
    /\ framerPc = "sendDecodeErr"
    /\ Len(tErrChan) < 1
    /\ tErrChan' = Append(tErrChan, "decode")
    /\ jsonBuffer' = <<>>
    /\ framerPc' = "scan"
    /\ UNCHANGED <<cfgVars, lockVars, recvVars, waitVars, initVars, writeVars, streamVars, closeVars, callVars, inVars, tMsgChan,
                   printed, line, nScanned, framerMsg, loopPc, queryOut>>

\* select { case msgChan <- data: case <-ctx.Done(): return }
FramerSendMsg ==
    /\ framerPc = "sendMsg"
    /\ \/ /\ Len(tMsgChan) < TMsgChanCap
          /\ tMsgChan' = Append(tMsgChan, framerMsg[1])
          /\ framerPc' = "scan"
       \/ /\ ctxDone
          /\ framerPc' = "done"
          /\ UNCHANGED tMsgChan
    /\ framerMsg' = <<>>
    /\ UNCHANGED <<cfgVars, lockVars, recvVars, waitVars, initVars, writeVars, streamVars, closeVars, callVars, inVars, tErrChan,
                   printed, line, nScanned, jsonBuffer, loopPc, queryOut>>

\* scanner.Scan() returns false at the end of stdout, which the process
\* closes when it ends.
FramerEOF ==
    /\ framerPc = "scan"
    /\ FramerStarted
    /\ transport.proc # "running"
    /\ framerPc' = "wait"
    /\ UNCHANGED <<cfgVars, lockVars, recvVars, waitVars, initVars, writeVars, streamVars, closeVars, callVars, inVars, pipeVars,
                   printed, line, nScanned, jsonBuffer, framerMsg, loopPc, queryOut>>

\* if err := scanner.Err(); err != nil { errChan <- "Error reading stdout" }
FramerSendScanErr ==
    /\ framerPc = "sendScanErr"
    /\ Len(tErrChan) < 1
    /\ tErrChan' = Append(tErrChan, "connection")
    /\ framerPc' = "wait"
    /\ UNCHANGED <<cfgVars, lockVars, recvVars, waitVars, initVars, writeVars, streamVars, closeVars, callVars, inVars, tMsgChan,
                   printed, line, nScanned, jsonBuffer, framerMsg, loopPc, queryOut>>

\* t.cmd.Wait(): it returns when the process has ended; a process that was
\* killed, or one that exited with a code other than 0, is a ProcessError.
ExitCodes(proc) == IF proc = "killed" THEN {-1} ELSE {0, 1}
FramerWait(code) ==
    /\ framerPc = "wait"
    /\ transport.proc # "running"
    /\ code \in ExitCodes(transport.proc)
    /\ framerPc' = IF code = 0 THEN "done" ELSE "sendExitErr"
    /\ UNCHANGED <<cfgVars, lockVars, recvVars, waitVars, initVars, writeVars, streamVars, closeVars, callVars, inVars, pipeVars,
                   printed, line, nScanned, jsonBuffer, framerMsg, loopPc, queryOut>>

FramerSendExitErr ==
    /\ framerPc = "sendExitErr"
    /\ Len(tErrChan) < 1
    /\ tErrChan' = Append(tErrChan, "process")
    /\ framerPc' = "done"
    /\ UNCHANGED <<cfgVars, lockVars, recvVars, waitVars, initVars, writeVars, streamVars, closeVars, callVars, inVars, tMsgChan,
                   printed, line, nScanned, jsonBuffer, framerMsg, loopPc, queryOut>>

\* Both channels are closed by the deferred calls when the goroutine returns.
ChansClosed == framerPc = "done"

\* ---- the one-shot Query() function: its goroutine reads the transport's
\* channels itself; no protocol.Query exists in this mode.

\* protocol.ParseMessage: an object of a type it knows becomes a message,
\* any other a MessageParseError.
KnownTypes == {"user", "assistant", "system", "result", "stream_event"}
ParseMessage(raw) ==
    IF raw.type \in KnownTypes THEN [kind |-> "msg", v |-> raw.obj]
    ELSE [kind |-> "err", v |-> "parse"]

\* case <-ctx.Done(): msgChan <- ctx.Err(); return (then the deferred
\* trans.Close()).
LoopCtxDone ==
    /\ loopPc = "select"
    /\ ctxDone
    /\ queryOut' = Append(queryOut, [kind |-> "err", v |-> "ctx"])
    /\ loopPc' = "done"
    /\ transport' = TransportClose(transport)
    /\ UNCHANGED <<cfgVars, lockVars, recvVars, waitVars, initVars, writeVars, streamVars, closed, qctxDone, ctxDone, closeCalls,
                   client, callVars, inVars, pipeVars, printed, line, nScanned, jsonBuffer,
                   framerPc, framerMsg>>

\* case err, ok := <-errChan: if ok && err != nil { msgChan <- err }; return
LoopRecvErr ==
    /\ loopPc = "select"
    /\ tErrChan # <<>>
    /\ tErrChan' = Tail(tErrChan)
    /\ queryOut' = Append(queryOut, [kind |-> "err", v |-> Head(tErrChan)])
    /\ loopPc' = "done"
    /\ transport' = TransportClose(transport)
    /\ UNCHANGED <<cfgVars, lockVars, recvVars, waitVars, initVars, writeVars, streamVars, closed, qctxDone, ctxDone, closeCalls,
                   client, callVars, inVars, tMsgChan, printed, line, nScanned, jsonBuffer,
                   framerPc, framerMsg>>

\* case raw, ok := <-rawMsgChan with ok: parse it; a parse error goes to the
\* consumer and the loop continues.
LoopRecvMsg ==
    /\ loopPc = "select"
    /\ tMsgChan # <<>>
    /\ tMsgChan' = Tail(tMsgChan)
    /\ queryOut' = Append(queryOut, ParseMessage(Head(tMsgChan)))
    /\ UNCHANGED <<cfgVars, lockVars, recvVars, waitVars, initVars, writeVars, streamVars, closeVars, callVars, inVars, tErrChan,
                   printed, line, nScanned, jsonBuffer, framerPc, framerMsg, loopPc>>

\* A receive from a closed channel is ready once the channel is empty: either
\* of the two ends the loop.
LoopEOF ==
    /\ loopPc = "select"
    /\ ChansClosed
    /\ tErrChan = <<>> \/ tMsgChan = <<>>
    /\ loopPc' = "done"
    /\ transport' = TransportClose(transport)
    /\ UNCHANGED <<cfgVars, lockVars, recvVars, waitVars, initVars, writeVars, streamVars, closed, qctxDone, ctxDone, closeCalls,
                   client, callVars, inVars, pipeVars, printed, line, nScanned, jsonBuffer,
                   framerPc, framerMsg, queryOut>>

\* ---- streaming mode: Query.readMessages receives from the same channels.
TransportRecvMsg ==
    /\ tMsgChan # <<>>
    /\ ReaderRecvMsg(ConvObject(Head(tMsgChan).type, Len(emitted) + 1))
    /\ tMsgChan' = Tail(tMsgChan)
    /\ UNCHANGED tErrChan

TransportRecvErr ==
    /\ tErrChan # <<>>
    /\ ReaderRecvErr(Head(tErrChan))
    /\ tErrChan' = Tail(tErrChan)
    /\ UNCHANGED tMsgChan

TransportRecvClosed ==
    /\ ChansClosed
    /\ tErrChan = <<>> \/ tMsgChan = <<>>
    /\ ReaderEOF
    /\ UNCHANGED pipeVars

\* ---- specification: the transport's goroutine read by the one-shot
\* Query() loop.
InitFraming == InitQuery(FALSE, <<>>, FALSE, EmptyMap, <<>>, <<>>)

NextFraming ==
    \/ \E l \in NextLines(printed) : FramerScan(l)
    \/ FramerSendDecodeErr
    \/ FramerSendMsg
    \/ FramerEOF
    \/ FramerSendScanErr
    \/ \E code \in ExitCodes(transport.proc) : FramerWait(code)
    \/ FramerSendExitErr
    \/ LoopCtxDone
    \/ LoopRecvErr
    \/ LoopRecvMsg
    \/ LoopEOF
    \/ ProcessExit
    \/ CtxCancel

SpecFraming == InitFraming /\ [][NextFraming]_vars

\* ---- specification: the transport's goroutine read by Query.readMessages
\* in streaming mode.
InitStreamFraming == InitQuery(TRUE, <<>>, FALSE, EmptyMap, <<>>, <<>>)

NextStreamFraming ==
    \/ \E l \in NextLines(printed) : FramerScan(l)
    \/ FramerSendDecodeErr
    \/ FramerSendMsg
    \/ FramerEOF
    \/ FramerSendScanErr
    \/ \E code \in ExitCodes(transport.proc) : FramerWait(code)
    \/ FramerSendExitErr
    \/ Start
    \/ TransportRecvMsg
    \/ TransportRecvErr
    \/ TransportRecvClosed
    \/ ReaderCtxDone
    \/ ReaderPush
    \/ ConsumerRecv
    \/ ProcessExit
    \/ CtxCancel

SpecStreamFraming == InitStreamFraming /\ [][NextStreamFraming]_vars

\* ---- specification: the control methods called on a Query of either mode.
InitControl ==
    \E streaming \in BOOLEAN :
        InitQuery(streaming, <<>>, FALSE, EmptyMap, <<>>, <<>>)

NextControl ==
    \/ Start
    \/ \E o \in OutboundObjects(Len(emitted) + 1) :
          Len(emitted) < MaxResponses /\ ReaderRecvMsg(o) /\ UNCHANGED pipeVars
    \/ \E c \in Callers, request \in ApiRequests : CallerRegister(c, request)
    \/ \E c \in Callers : CallerWrite(c)
    \/ \E c \in Callers : CallerRecv(c)
    \/ ProcessExit

SpecControl == InitControl /\ [][NextControl]_vars

\* ---- specification: inbound requests whose callbacks take their time,
\* next to conversational objects and the responses to an outbound request.
BlockedObjects(seq) ==
    {ConvObject("assistant", seq)}
    \cup {ResponseObject(seq, id, "success") : id \in WrittenIds}
    \cup {RequestObject(seq, r) :
             r \in {PermissionRequest(ToolInput),
                    HookRequest(HookId(0), HookInput("PreToolUse"))}}

InitBlocked == InitQuery(TRUE, <<"user">>, TRUE, EngineHooks, <<"PreToolUse">>, <<>>)

NextBlocked ==
    \/ Start
    \/ \E o \in BlockedObjects(Len(emitted) + 1) : ReaderRecvMsg(o) /\ UNCHANGED pipeVars
    \/ ReaderPush
    \/ ConsumerRecv
    \/ \E h \in handlers : \E d \in OutcomesFor(h, StreamOutcomes) : HandleControlRequest(h, d)
    \/ CallerRegister("c1", Interrupt)
    \/ CallerWrite("c1")
    \/ CallerRecv("c1")

SpecBlocked == InitBlocked /\ [][NextBlocked]_vars

\* ---- Query.WaitForFirstResult: a select over the caller's context, the
\* first-result signal and a timer of streamCloseTimeout.
WaitForFirstResult(case) ==
    /\ waitRet = "none"
    /\ \/ case = "ctx" /\ ctxDone
       \/ case = "signal" /\ firstResultEvent
       \/ case = "timeout"
    /\ waitRet' = case
    /\ UNCHANGED <<cfgVars, lockVars, recvVars, initVars, writeVars, streamVars, closeVars,
                   callVars, inVars, frameVars, pipeVars>>

\* ---- specification: a stream with result objects and a waiter.
ResultObjects(seq) == {ConvObject(t, seq) : t \in {"assistant", "result"}}

InitResult == InitQuery(TRUE, <<>>, FALSE, EmptyMap, <<>>, <<>>)

NextResult ==
    \/ Start
    \/ ReaderCtxDone
    \/ ReaderEOF /\ UNCHANGED pipeVars
    \/ \E o \in ResultObjects(Len(emitted) + 1) : ReaderRecvMsg(o) /\ UNCHANGED pipeVars
    \/ ReaderPush
    \/ ConsumerRecv
    \/ \E case \in {"ctx", "signal", "timeout"} : WaitForFirstResult(case)
    \/ CtxCancel
    \/ ProcessExit

SpecResult == InitResult /\ [][NextResult]_vars

\* ---- specification: inbound requests of every subtype and their responses,
\* with callbacks that return any decision, an unencodable one included.
RespondObjects(seq) ==
    {RequestObject(seq, r) :
        r \in {PermissionRequest(ToolInput),
               HookRequest(HookId(0), HookInput("PreToolUse")),
               UnsupportedRequest}}

RespondOutcomes ==
    [perm |-> {Allow(NilMap, <<>>), Allow(Map({<<"timeout", Unencodable>>}), <<>>),
               Deny("no", FALSE), CallbackError},
     hook |-> {[kind |-> "hook_ok", output |-> <<>>],
               [kind |-> "hook_err", output |-> <<>>]},
     tool |-> {}]

InitRespond == InitQuery(TRUE, <<"user">>, TRUE, EngineHooks, <<"PreToolUse">>, <<>>)

NextRespond ==
    \/ Start
    \/ ReaderCtxDone
    \/ ReaderEOF /\ UNCHANGED pipeVars
    \/ \E o \in RespondObjects(Len(emitted) + 1) : ReaderRecvMsg(o) /\ UNCHANGED pipeVars
    \/ \E h \in handlers : \E d \in OutcomesFor(h, RespondOutcomes) : HandleControlRequest(h, d)
    \/ ~closed /\ QueryClose
    \/ ProcessExit

SpecRespond == InitRespond /\ [][NextRespond]_vars

\* ---- SpecLocalError: a streaming Query whose process sends requests that
\* fail inside the SDK (an unsupported subtype, a callback that returns an
\* error, a hook input that does not decode) among requests that succeed
\* and conversational objects; nothing closes the connection.
UndecodableInput == HookInput("NoSuchEvent")

LocalErrorObjects(seq) ==
    {RequestObject(seq, r) :
        r \in {PermissionRequest(ToolInput),
               HookRequest(HookId(0), HookInput("PreToolUse")),
               HookRequest(HookId(0), UndecodableInput),
               UnsupportedRequest}}
    \cup {ConvObject("assistant", seq)}

LocalErrorOutcomes ==
    [perm |-> {Allow(NilMap, <<>>), CallbackError},
     hook |-> {[kind |-> "hook_ok", output |-> <<>>],
               [kind |-> "hook_err", output |-> <<>>]},
     tool |-> {}]

InitLocalError == InitQuery(TRUE, <<"user">>, TRUE, EngineHooks, <<"PreToolUse">>, <<>>)

NextLocalError ==
    \/ Start
    \/ \E o \in LocalErrorObjects(Len(emitted) + 1) : ReaderRecvMsg(o) /\ UNCHANGED pipeVars
    \/ ReaderPush
    \/ ConsumerRecv
    \/ \E h \in handlers : \E d \in OutcomesFor(h, LocalErrorOutcomes) :
          HandleControlRequest(h, d)

SpecLocalError == InitLocalError /\ [][NextLocalError]_vars

\* ---- SpecMCP: a streaming Query with one in-process MCP server; the
\* process sends mcp_message requests for known and unknown servers, methods
\* and tools, and the tool handlers return a value or an error.
MaxMcpEmit == 2

\* An mcp.SDKServer built by NewSDKServer(name, version, tools...).
SDKServer ==
    [name |-> "my-tools", version |-> "1.0.0",
     tools |-> <<[Name |-> "greet", Description |-> "Greet a user",
                  InputSchema |-> "greetSchema", Handler |-> "greetHandler"],
                 [Name |-> "calculate", Description |-> "Do math",
                  InputSchema |-> "calcSchema", Handler |-> "calcHandler"]>>]

\* Mutant of ToHandler: the tools are copied in reverse order.
ToHandlerReversed(s) ==
    [Name |-> s.name, Version |-> s.version,
     Tools |-> [i \in 1..Len(s.tools) |->
                   [Name |-> s.tools[Len(s.tools) + 1 - i].Name,
                    Description |-> s.tools[Len(s.tools) + 1 - i].Description,
                    InputSchema |-> s.tools[Len(s.tools) + 1 - i].InputSchema,
                    Handler |-> s.tools[Len(s.tools) + 1 - i].Handler]]]

\* SDKServer.toHandler: the protocol.MCPServerHandler of the server, its
\* tools copied in order.
ToHandler(s) ==
    [Name |-> s.name, Version |-> s.version,
     Tools |-> [i \in 1..Len(s.tools) |->
                   [Name |-> s.tools[i].Name,
                    Description |-> s.tools[i].Description,
                    InputSchema |-> s.tools[i].InputSchema,
                    Handler |-> s.tools[i].Handler]]]

\* The sdkServers map Client.Connect builds from AgentOptions.MCPServers.
SdkServers == [n \in {"tools"} |-> ToHandler(SDKServer)]

\* The JSON-RPC id of the message in the process's seq-th object.
RpcId(seq) == <<"rpc", seq>>

McpRequest(server, id, method, name, arguments) ==
    [subtype |-> "mcp_message", server_name |-> server,
     message |-> [id |-> id, method |-> method,
                  params |-> [name |-> name, arguments |-> arguments]]]

ToolArguments == JObj({<<"name", "Ann">>})

McpObjects(seq) ==
    {RequestObject(seq, r) :
        r \in {McpRequest("tools", RpcId(seq), "tools/list", "", JNull),
               McpRequest("tools", RpcId(seq), "resources/list", "", JNull),
               McpRequest("nope", RpcId(seq), "tools/call", "greet", ToolArguments)}
              \cup {McpRequest("tools", RpcId(seq), "tools/call", n, a) :
                       n \in {"greet", "calculate", "missing"},
                       a \in {ToolArguments, JNull}}}

McpOutcomes ==
    [perm |-> {}, hook |-> {},
     tool |-> {[kind |-> "tool_ok", value |-> "greeting"],
               [kind |-> "tool_err", value |-> "boom"]}]

InitMCP == InitQueryServers(TRUE, <<>>, FALSE, EmptyMap, <<>>, <<>>, SdkServers)

NextMCP ==
    \/ Start
    \/ /\ Len(emitted) < MaxMcpEmit
       /\ \E o \in McpObjects(Len(emitted) + 1) : ReaderRecvMsg(o) /\ UNCHANGED pipeVars
    \/ \E h \in handlers : \E d \in OutcomesFor(h, McpOutcomes) : HandleControlRequest(h, d)

SpecMCP == InitMCP /\ [][NextMCP]_vars

\* ---- SpecInit: Client.Connect's call of Query.Initialize on a streaming
\* Query whose reader runs; the process answers with a success or an error,
\* or not at all, and the connection may fail or be closed meanwhile.
\* Mutant of MatcherConfig: the timeout is left out.
MatcherConfigNoTimeout(m) ==
    [matcher |-> m.Matcher, hookCallbackIds |-> m.CallbackIDs]

\* Initialize, the entry of hooksConfig for one matcher.
MatcherConfig(m) ==
    IF m.Timeout = <<>>
    THEN [matcher |-> m.Matcher, hookCallbackIds |-> m.CallbackIDs]
    ELSE [matcher |-> m.Matcher, hookCallbackIds |-> m.CallbackIDs,
          timeout |-> m.Timeout[1]]

\* Initialize, hooksConfig: <<>> (nil) when q.hooks is empty, else one key
\* per event that has matchers.
HooksConfig(hks) ==
    IF DOMAIN hks = {} THEN <<>>
    ELSE <<[e \in {x \in DOMAIN hks : Len(hks[x]) > 0} |->
               [i \in 1..Len(hks[e]) |-> MatcherConfig(hks[e][i])]]>>

\* The request map Initialize passes to sendControlRequest.
InitializeRequest(hks) ==
    IF HooksConfig(hks) = <<>> THEN [subtype |-> "initialize"]
    ELSE [subtype |-> "initialize", hooks |-> HooksConfig(hks)[1]]

\* The goroutine that calls Initialize.
InitCaller == "c1"

\* Initialize up to the registration inside sendControlRequest; out of
\* streaming mode it returns (nil, nil) at once.
Initialize ==
    IF isStreamingMode
    THEN CallerRegister(InitCaller, InitializeRequest(hooks))
    ELSE /\ callerPc[InitCaller] = "idle"
         /\ callerPc' = [callerPc EXCEPT ![InitCaller] = "returned"]
         /\ UNCHANGED <<cfgVars, lockVars, recvVars, waitVars, initVars, writeVars, frameVars, pipeVars, streamVars,
                        closeVars, written, pendingResponses, requestCounter, callerId,
                        callerReq, callerCtx, callerRet, respChan, routed, inVars>>

\* Mutant of InitSucceeded: any ControlResult taken from the channel counts.
InitSucceededAnyResult(ret) == ret.kind = "result"

\* Initialize, "if err != nil" after sendControlRequest: it returned a
\* ControlResult without error.
InitSucceeded(ret) == ret.kind = "result" /\ ret.result.Error = <<>>

\* Initialize after sendControlRequest returned: on an error it returns it,
\* otherwise it sets initialized and initResult.
InitializeReturn ==
    /\ callerPc[InitCaller] = "done"
    /\ callerPc' = [callerPc EXCEPT ![InitCaller] = "returned"]
    /\ IF InitSucceeded(callerRet[InitCaller])
       THEN /\ initialized' = TRUE
            /\ initResult' = callerRet[InitCaller].result.Response
       ELSE UNCHANGED initVars
    /\ UNCHANGED <<cfgVars, lockVars, recvVars, waitVars, writeVars, frameVars, pipeVars, streamVars, closeVars, written,
                   pendingResponses, requestCounter, callerId, callerReq, callerCtx,
                   callerRet, respChan, routed, inVars>>

\* Query.GetInitResult.
GetInitResult == initResult

InitInit == InitQuery(TRUE, <<>>, FALSE, EngineHooks, <<"PreToolUse">>, <<>>)

NextInit ==
    \/ Start
    \/ ReaderCtxDone
    \/ ReaderRecvErr("process") /\ UNCHANGED pipeVars
    \/ ReaderEOF /\ UNCHANGED pipeVars
    \/ \E o \in OutboundObjects(Len(emitted) + 1) :
          Len(emitted) < MaxResponses /\ ReaderRecvMsg(o) /\ UNCHANGED pipeVars
    \/ Initialize
    \/ CallerWrite(InitCaller)
    \/ CallerCtxDone(InitCaller)
    \/ CallerTimeout(InitCaller)
    \/ CallerRecv(InitCaller)
    \/ InitializeReturn
    \/ ~closed /\ QueryClose
    \/ ProcessExit

SpecInit == InitInit /\ [][NextInit]_vars

\* ---- SpecWrite: SubprocessTransport.Write called at once by
\* sendControlRequest, by a handleControlRequest goroutine and by
\* Client.SendQuery, a line reaching the pipe in LineParts fragments, while
\* Close runs or the process exits.
LineParts == 2

\* The JSON line of types.UserInputMessage that SendQuery marshals.
UserInputMessage(prompt) ==
    [type |-> "user", message |-> [role |-> "user", content |-> prompt],
     session_id |-> "default"]

\* The line each writer passes to Write.
WriterLine(w) ==
    CASE w = "sendControlRequest" ->
            ControlRequestLine(RequestID(1, "00000000"), Interrupt)
      [] w = "handleControlRequest" ->
            ErrorResponse(CliId(1), "unsupported control request subtype")
      [] OTHER -> UserInputMessage("Hello")

\* One fragment of a writer's line on the pipe.
Fragment(w, part) == [w |-> w, part |-> part]

\* A goroutine calls Write and reaches t.writeMu.Lock().
WriteCall(w) ==
    /\ writerPc[w] = "idle"
    /\ writerPc' = [writerPc EXCEPT ![w] = "lock"]
    /\ UNCHANGED <<cfgVars, lockVars, recvVars, waitVars, initVars, frameVars, pipeVars, streamVars, inVars,
                   closeVars, callVars, writeMu, stdinPipe, writerPart, closePc>>

\* Mutant of WriteLock: the mutex is taken whoever holds it.
WriteLockNoMutex(w) ==
    /\ writerPc[w] = "lock"
    /\ writeMu' = <<w>>
    /\ writerPc' = [writerPc EXCEPT ![w] = "checks"]
    /\ UNCHANGED <<cfgVars, lockVars, recvVars, waitVars, initVars, frameVars, pipeVars, streamVars, inVars,
                   closeVars, callVars, stdinPipe, writerPart, closePc>>

\* Write, "t.writeMu.Lock()": it returns when nobody holds the mutex.
WriteLock(w) ==
    /\ writerPc[w] = "lock"
    /\ writeMu = <<>>
    /\ writeMu' = <<w>>
    /\ writerPc' = [writerPc EXCEPT ![w] = "checks"]
    /\ UNCHANGED <<cfgVars, lockVars, recvVars, waitVars, initVars, frameVars, pipeVars, streamVars, inVars,
                   closeVars, callVars, stdinPipe, writerPart, closePc>>

\* Write, the three checks before io.WriteString: a failed check returns an
\* error and the deferred Unlock runs.  ProcessState is set by Wait, so an
\* exited process may or may not be seen here.
WriteChecks(w) ==
    /\ writerPc[w] = "checks"
    /\ \/ /\ \/ ~transport.ready \/ ~transport.stdin
             \/ transport.closed
             \/ transport.proc # "running"
          /\ writerPc' = [writerPc EXCEPT ![w] = "failed"]
          /\ writeMu' = <<>>
       \/ /\ transport.ready /\ transport.stdin /\ ~transport.closed
          /\ writerPc' = [writerPc EXCEPT ![w] = "write"]
          /\ UNCHANGED writeMu
    /\ UNCHANGED <<cfgVars, lockVars, recvVars, waitVars, initVars, frameVars, pipeVars, streamVars, inVars,
                   closeVars, callVars, stdinPipe, writerPart, closePc>>

\* Write, io.WriteString(t.stdin, data): the next fragment of the line goes
\* into the pipe; after the last one Write returns nil and unlocks.  On a
\* pipe whose reader is gone the write fails: ready is cleared, exitError
\* set, the error returned.
WriteString(w) ==
    /\ writerPc[w] = "write"
    /\ IF transport.proc # "running"
       THEN /\ transport' = [transport EXCEPT !.ready = FALSE, !.exitError = TRUE]
            /\ writerPc' = [writerPc EXCEPT ![w] = "failed"]
            /\ writeMu' = <<>>
            /\ UNCHANGED <<stdinPipe, writerPart, written>>
       ELSE /\ stdinPipe' = Append(stdinPipe, Fragment(w, writerPart[w] + 1))
            /\ writerPart' = [writerPart EXCEPT ![w] = @ + 1]
            /\ IF writerPart[w] + 1 = LineParts
               THEN /\ writerPc' = [writerPc EXCEPT ![w] = "done"]
                    /\ writeMu' = <<>>
                    /\ written' = Append(written, WriterLine(w))
               ELSE UNCHANGED <<writerPc, writeMu, written>>
            /\ UNCHANGED transport
    /\ UNCHANGED <<cfgVars, lockVars, recvVars, waitVars, initVars, frameVars, pipeVars, streamVars, inVars,
                   closed, qctxDone, ctxDone, closeCalls, client,
                   pendingResponses, requestCounter, callerPc, callerId, callerReq,
                   callerCtx, callerRet, respChan, routed, closePc>>

\* Close, "t.closed = true; t.ready = false", under closeMu only.
CloseFlags ==
    /\ closePc = "idle"
    /\ transport' = [transport EXCEPT !.closed = TRUE, !.ready = FALSE]
    /\ closePc' = "stdin"
    /\ UNCHANGED <<cfgVars, lockVars, recvVars, waitVars, initVars, frameVars, pipeVars, streamVars, inVars,
                   closed, qctxDone, ctxDone, closeCalls, client, callVars,
                   writeMu, stdinPipe, writerPc, writerPart>>

\* Close, the stdin pipe closed and dropped between writeMu.Lock() and
\* writeMu.Unlock().
CloseStdin ==
    /\ closePc = "stdin"
    /\ writeMu = <<>>
    /\ transport' = [transport EXCEPT !.stdin = FALSE]
    /\ closePc' = "kill"
    /\ UNCHANGED <<cfgVars, lockVars, recvVars, waitVars, initVars, frameVars, pipeVars, streamVars, inVars,
                   closed, qctxDone, ctxDone, closeCalls, client, callVars,
                   writeMu, stdinPipe, writerPc, writerPart>>

\* Close, the rest: stderr closed, the process killed and waited for, stdout
\* and exitError dropped.
CloseKill ==
    /\ closePc = "kill"
    /\ transport' = TransportClose(transport)
    /\ closePc' = "done"
    /\ UNCHANGED <<cfgVars, lockVars, recvVars, waitVars, initVars, frameVars, pipeVars, streamVars, inVars,
                   closed, qctxDone, ctxDone, closeCalls, client, callVars,
                   writeMu, stdinPipe, writerPc, writerPart>>

InitWrite == InitQuery(TRUE, <<>>, FALSE, EmptyMap, <<>>, <<>>)

NextWrite ==
    \/ \E w \in Writers : WriteCall(w)
    \/ \E w \in Writers : WriteLock(w)
    \/ \E w \in Writers : WriteChecks(w)
    \/ \E w \in Writers : WriteString(w)
    \/ CloseFlags
    \/ CloseStdin
    \/ CloseKill
    \/ ProcessExit

SpecWrite == InitWrite /\ [][NextWrite]_vars

\* ---- Client.ReceiveMessages and Client.ReceiveResponse: each call makes a
\* channel and starts a goroutine that ranges over the Query's message
\* channel (c.rawMsgChan), parses each object and sends the message on.
ClientChanCap == 2
MaxCalls == 3

\* Mutant of IsResultMessage: no message is taken for a ResultMessage.
IsResultMessageNever(m) == FALSE

\* "_, isResult := msg.(*types.ResultMessage)".
IsResultMessage(m) == m.type = "result"

\* A call of ReceiveMessages or ReceiveResponse on a connected Client, the
\* channel of the call before it having been drained until it was closed.
ReceiveCall(kind) ==
    /\ client # <<>>
    /\ recvPc \in {"off", "closed"}
    /\ msgChan = <<>>
    /\ Len(yielded) < MaxCalls
    /\ recvKind' = kind
    /\ recvPc' = "range"
    /\ recvMsg' = <<>>
    /\ yielded' = Append(yielded, <<>>)
    /\ UNCHANGED <<cfgVars, lockVars, waitVars, initVars, writeVars, frameVars, pipeVars, streamVars,
                   closeVars, callVars, inVars, msgChan>>

\* "for raw := range c.rawMsgChan": the next object is taken and parsed; on
\* a parse error the loop continues with the object after it.
ReceiveRange ==
    /\ recvPc = "range"
    /\ messageChan # <<>>
    /\ LET raw == Head(messageChan)
           r == ParseMessage([type |-> raw.type, obj |-> raw])
       IN /\ messageChan' = Tail(messageChan)
          /\ delivered' = Append(delivered, raw)
          /\ IF r.kind = "err"
             THEN UNCHANGED <<recvPc, recvMsg>>
             ELSE /\ recvMsg' = <<r.v>>
                  /\ recvPc' = "send"
    /\ UNCHANGED <<cfgVars, lockVars, waitVars, initVars, writeVars, frameVars, pipeVars, emitted,
                   readerPc, readerMsg, errorChan, firstResultEvent, closeVars, callVars,
                   inVars, recvKind, msgChan, yielded>>

\* The range ends when the reader has closed the Query's channel and it is
\* empty; the deferred close(msgChan) runs.
ReceiveRangeClosed ==
    /\ recvPc = "range"
    /\ messageChan = <<>>
    /\ readerPc = "done"
    /\ recvPc' = "closed"
    /\ UNCHANGED <<cfgVars, lockVars, waitVars, initVars, writeVars, frameVars, pipeVars, streamVars,
                   closeVars, callVars, inVars, recvKind, recvMsg, msgChan, yielded>>

\* "msgChan <- msg"; ReceiveResponse returns after a ResultMessage.
ReceiveSend ==
    /\ recvPc = "send"
    /\ Len(msgChan) < ClientChanCap
    /\ msgChan' = Append(msgChan, recvMsg[1])
    /\ recvMsg' = <<>>
    /\ recvPc' = IF recvKind = "response" /\ IsResultMessage(recvMsg[1])
                 THEN "closed" ELSE "range"
    /\ UNCHANGED <<cfgVars, lockVars, waitVars, initVars, writeVars, frameVars, pipeVars, streamVars,
                   closeVars, callVars, inVars, recvKind, yielded>>

\* The caller's "for msg := range ..." takes the next message.
CallerTake ==
    /\ msgChan # <<>>
    /\ yielded' = [yielded EXCEPT ![Len(yielded)] = Append(@, Head(msgChan))]
    /\ msgChan' = Tail(msgChan)
    /\ UNCHANGED <<cfgVars, lockVars, waitVars, initVars, writeVars, frameVars, pipeVars, streamVars,
                   closeVars, callVars, inVars, recvKind, recvPc, recvMsg>>

\* What the process sends: messages of known types, an object of a type the
\* SDK does not know, and one without a type (read as "").
ClientObjects(seq) == {ConvObject(t, seq) : t \in {"assistant", "result", "bogus", ""}}

InitClient == InitQuery(TRUE, <<"client">>, FALSE, EmptyMap, <<>>, <<ClientConnected>>)

\* ---- SpecClientMessages: one call of Client.ReceiveMessages.
NextClientMessages ==
    \/ Start
    \/ \E o \in ClientObjects(Len(emitted) + 1) : ReaderRecvMsg(o) /\ UNCHANGED pipeVars
    \/ ReaderPush
    \/ ProcessExit
    \/ ReaderEOF /\ UNCHANGED pipeVars
    \/ yielded = <<>> /\ ReceiveCall("messages")
    \/ ReceiveRange
    \/ ReceiveRangeClosed
    \/ ReceiveSend
    \/ CallerTake

SpecClientMessages == InitClient /\ [][NextClientMessages]_vars

\* ---- SpecClientResponse: successive calls of Client.ReceiveResponse, each
\* drained until its channel is closed before the next is made.
NextClientResponse ==
    \/ Start
    \/ \E o \in ClientObjects(Len(emitted) + 1) : ReaderRecvMsg(o) /\ UNCHANGED pipeVars
    \/ ReaderPush
    \/ ProcessExit
    \/ ReaderEOF /\ UNCHANGED pipeVars
    \/ ReceiveCall("response")
    \/ ReceiveRange
    \/ ReceiveRangeClosed
    \/ ReceiveSend
    \/ CallerTake

SpecClientResponse == InitClient /\ [][NextClientResponse]_vars

\* ---- SpecReaderEnds: the reader of a streaming Query on the transport's
\* goroutine, with a consumer that keeps receiving; the connection ends by
\* Close, by the cancellation of the context, by a transport error or by the
\* end of the process's output.  Goroutines that can take a step are
\* scheduled: each step of the reader, of the transport's goroutine and of
\* the consumer is weakly fair.  What the process prints, whether it exits
\* and whether anyone closes or cancels is not.
MaxEndLines == 3

InitReaderEnds == InitQuery(TRUE, <<>>, FALSE, EmptyMap, <<>>, <<>>)

NextReaderEnds ==
    \/ \E l \in NextLines(printed) : nScanned < MaxEndLines /\ FramerScan(l)
    \/ FramerSendDecodeErr
    \/ FramerSendMsg
    \/ FramerEOF
    \/ FramerSendScanErr
    \/ \E code \in ExitCodes(transport.proc) : FramerWait(code)
    \/ FramerSendExitErr
    \/ Start
    \/ TransportRecvMsg
    \/ TransportRecvErr
    \/ TransportRecvClosed
    \/ ReaderCtxDone
    \/ ReaderPush
    \/ ConsumerRecv
    \/ ProcessExit
    \/ CtxCancel
    \/ ~closed /\ QueryClose

ReaderEndsFairness ==
    /\ WF_vars(Start)
    /\ WF_vars(TransportRecvMsg)
    /\ WF_vars(TransportRecvErr)
    /\ WF_vars(TransportRecvClosed)
    /\ WF_vars(ReaderCtxDone)
    /\ WF_vars(ReaderPush)
    /\ WF_vars(ConsumerRecv)
    /\ WF_vars(FramerSendDecodeErr)
    /\ WF_vars(FramerSendMsg)
    /\ WF_vars(FramerEOF)
    /\ WF_vars(FramerSendScanErr)
    /\ WF_vars(\E code \in ExitCodes(transport.proc) : FramerWait(code))
    /\ WF_vars(FramerSendExitErr)

SpecReaderEnds == InitReaderEnds /\ [][NextReaderEnds]_vars /\ ReaderEndsFairness

\* ---- SpecInitHooks: Initialize on Queries built from several hook
\* configurations, in every order Go may iterate over the configured events:
\* two events of one matcher each (one with a timeout), one event of two
\* matchers, an event without matchers next to one with a matcher, a matcher
\* without callbacks, and a Hooks map without events.
HookMatcherTimeout(matcher, callbacks, timeout) ==
    [Matcher |-> matcher, Hooks |-> callbacks, Timeout |-> <<timeout>>]

InitHookConfigs ==
    {[e \in {"PreToolUse", "PostToolUse"} |->
         IF e = "PreToolUse"
         THEN <<HookMatcherTimeout(<<"Bash">>, <<"cbA", "cbB">>, 5)>>
         ELSE <<HookMatcher(<<>>, <<"cbA">>)>>],
     EngineHooks,
     [e \in {"PreToolUse", "Stop"} |->
         IF e = "PreToolUse"
         THEN <<HookMatcher(<<"Bash">>, <<"cbA">>), HookMatcher(<<"Edit">>, <<>>)>>
         ELSE <<>>],
     EmptyMap}

InitInitHooks ==
    \E cfg \in InitHookConfigs : \E order \in IterationOrders(DOMAIN cfg) :
        InitQuery(TRUE, <<>>, FALSE, cfg, order, <<>>)

SpecInitHooks == InitInitHooks /\ [][NextInit]_vars

\* ---- SpecClientControl: goroutines call Client.Interrupt,
\* Client.SetPermissionMode and Client.SetModel on a connected Client while
\* another calls Client.Close; the process answers the requests it was sent
\* or does not, a caller's context may expire, the process may exit.
\* Every one of these methods starts with c.mu.Lock() and defers the Unlock.
\* "c.mu.Lock()" of a control method called by c.
ClientLock(c) ==
    /\ client # <<>>
    /\ readerPc # "idle"
    /\ callerPc[c] = "idle"
    /\ clientMu = <<>>
    /\ clientMu' = <<c>>
    /\ UNCHANGED <<cfgVars, clientClosePc, recvVars, waitVars, initVars, writeVars,
                   frameVars, pipeVars, streamVars, closeVars, callVars, inVars>>

\* Client.Interrupt, SetPermissionMode, SetModel under c.mu: without a
\* connection a CLIConnectionError is returned (and c.mu released), else the
\* Query's method is called, which calls sendControlRequest.
ClientCall(c, request) ==
    /\ clientMu = <<c>>
    /\ callerPc[c] = "idle"
    /\ IF client[1].connected /\ client[1].query
       THEN CallerRegister(c, request)
       ELSE /\ callerPc' = [callerPc EXCEPT ![c] = "returned"]
            /\ callerRet' = [callerRet EXCEPT ![c] = Returned("notconnected", ResultOk(<<>>))]
            /\ clientMu' = <<>>
            /\ UNCHANGED <<cfgVars, clientClosePc, recvVars, waitVars, initVars, writeVars,
                           frameVars, pipeVars, streamVars, closeVars, written,
                           pendingResponses, requestCounter, callerId, callerReq,
                           callerCtx, respChan, routed, inVars>>

\* The Query's method has returned: the Client's method returns its error
\* and the deferred c.mu.Unlock() runs.
ClientReturn(c) ==
    /\ clientMu = <<c>>
    /\ callerPc[c] = "done"
    /\ callerPc' = [callerPc EXCEPT ![c] = "returned"]
    /\ clientMu' = <<>>
    /\ UNCHANGED <<cfgVars, clientClosePc, recvVars, waitVars, initVars, writeVars,
                   frameVars, pipeVars, streamVars, closeVars, written, pendingResponses,
                   requestCounter, callerId, callerReq, callerCtx, callerRet, respChan,
                   routed, inVars>>

\* A goroutine calls Client.Close: it is at "c.mu.Lock()".
ClientCloseCall ==
    /\ client # <<>>
    /\ readerPc # "idle"
    /\ clientClosePc = "idle"
    /\ clientClosePc' = "lock"
    /\ UNCHANGED <<cfgVars, clientMu, recvVars, waitVars, initVars, writeVars, frameVars,
                   pipeVars, streamVars, closeVars, callVars, inVars>>

\* Client.Close gets c.mu and runs to its end.
ClientCloseRun ==
    /\ clientClosePc = "lock"
    /\ ClientCloseLocked
    /\ clientClosePc' = "done"

\* The calls made: one of each method.
ClientRequests == {Interrupt, SetPermissionMode("plan"), SetModel(<<"m">>)}

NextClientControl ==
    \/ Start
    \/ ReaderCtxDone
    \/ ReaderRecvErr("process") /\ UNCHANGED pipeVars
    \/ \E o \in OutboundObjects(Len(emitted) + 1) :
          Len(emitted) < MaxResponses /\ ReaderRecvMsg(o) /\ UNCHANGED pipeVars
    \/ \E c \in Callers : ClientLock(c)
    \/ \E c \in Callers, request \in ClientRequests : ClientCall(c, request)
    \/ \E c \in Callers : CallerWrite(c)
    \/ \E c \in Callers : CallerCtxDone(c)
    \/ \E c \in Callers : CallerTimeout(c)
    \/ \E c \in Callers : CallerRecv(c)
    \/ \E c \in Callers : ClientReturn(c)
    \/ ClientCloseCall
    \/ ClientCloseRun
    \/ ProcessExit

\* The goroutines of the program keep running: a step of the reader, of a
\* control method or of Close that can be taken is taken.  Whether the
\* process answers, whether a caller's context expires and whether the
\* transport fails is left open.
ClientControlFairness ==
    /\ WF_vars(Start)
    /\ WF_vars(ReaderCtxDone)
    /\ WF_vars(\E c \in Callers, request \in ClientRequests : ClientCall(c, request))
    /\ WF_vars(\E c \in Callers : CallerWrite(c))
    /\ WF_vars(\E c \in Callers : CallerTimeout(c))
    /\ WF_vars(\E c \in Callers : CallerRecv(c))
    /\ WF_vars(\E c \in Callers : ClientReturn(c))
    /\ WF_vars(ClientCloseRun)

SpecClientControl == InitClient /\ [][NextClientControl]_vars /\ ClientControlFairness

\* ---- SpecHookToolUse: the process invokes the two registered hooks with
\* and without a tool_use_id; the callbacks succeed or fail.
HookRequestFor(callbackID, input, toolUseID) ==
    [subtype |-> "hook_callback", callback_id |-> callbackID, input |-> input,
     tool_use_id |-> JStr(toolUseID)]

ToolUseObjects(seq) ==
    {RequestObject(seq, HookRequest(id, HookInput("PreToolUse"))) :
        id \in {HookId(0), HookId(1)}}
    \cup {RequestObject(seq, HookRequestFor(id, HookInput("PreToolUse"), tu)) :
             id \in {HookId(0), HookId(1)}, tu \in {"toolu_1", "toolu_2"}}

InitHookToolUse == InitQuery(TRUE, <<>>, FALSE, EngineHooks, <<"PreToolUse">>, <<>>)

NextHookToolUse ==
    \/ Start
    \/ \E o \in ToolUseObjects(Len(emitted) + 1) :
          Len(emitted) < MaxHookEmit /\ ReaderRecvMsg(o) /\ UNCHANGED pipeVars
    \/ \E h \in handlers : \E d \in OutcomesFor(h, HookOutcomes) : HandleControlRequest(h, d)
    \/ ProcessExit

SpecHookToolUse == InitHookToolUse /\ [][NextHookToolUse]_vars

\* ---- SpecPermMalformed: a Query with a permission callback; the process
\* sends can_use_tool requests that are well formed, that have no input,
\* and whose permission_suggestions hold a well-formed entry, an entry that
\* is no object, or an object without a type; several can be in flight.
PermissionRequestWith(input, suggestions) ==
    [subtype |-> "can_use_tool", tool_name |-> "Bash", input |-> input,
     permission_suggestions |-> suggestions]

PermissionRequestNoInput == [subtype |-> "can_use_tool", tool_name |-> "Bash"]

SuggestionLists ==
    {JArr(<<JObj({<<"type", "addRules">>})>>),
     JArr(<<JNull>>),
     JArr(<<JObj({<<"type", "addRules">>}), JObj({})>>),
     JNull}

MalformedObjects(seq) ==
    {RequestObject(seq, PermissionRequest(ToolInput)),
     RequestObject(seq, PermissionRequestNoInput)}
    \cup {RequestObject(seq, PermissionRequestWith(ToolInput, sl)) : sl \in SuggestionLists}

MalformedOutcomes ==
    [perm |-> {Allow(NilMap, <<>>), Deny("no", FALSE), CallbackError},
     hook |-> {}, tool |-> {}]

InitPermMalformed == InitQuery(TRUE, <<"user">>, TRUE, EmptyMap, <<>>, <<>>)

NextPermMalformed ==
    \/ Start
    \/ \E o \in MalformedObjects(Len(emitted) + 1) :
          Len(emitted) < MaxPermRequests /\ ReaderRecvMsg(o) /\ UNCHANGED pipeVars
    \/ \E h \in handlers : \E d \in OutcomesFor(h, MalformedOutcomes) :
          HandleControlRequest(h, d)

SpecPermMalformed == InitPermMalformed /\ [][NextPermMalformed]_vars

\* ================================================================ claims ====
IsPrefix(s, t) == Len(s) <= Len(t) /\ \A i \in 1..Len(s) : s[i] = t[i]

\* An object that is no control envelope.
IsConversational(o) == o.type \notin ControlTypes

\* The conversational objects the process emitted, in emission order.
ConvEmitted == SelectSeq(emitted, IsConversational)

\* What the consumer has received, followed by what the channel buffers and
\* by the object of a push in progress.
ConsumerStream == delivered \o messageChan \o readerMsg

\* C1: the conversational objects reach the consumer channel in the order in
\* which the process emitted them: what the consumer has received and will
\* receive from the channel is, object by object, a prefix of the
\* conversational objects emitted, whatever control envelopes lie between
\* them and whether or not their handlers have returned.
C1_OrderPreserved == IsPrefix(ConsumerStream, ConvEmitted)

\* C1 witness: two conversational objects were delivered, a control request
\* was emitted between them, and its handler has not returned yet.
C1_Witness ==
    /\ Len(delivered) >= 2
    /\ \E h \in handlers : delivered[1].seq < h.seq /\ h.seq < delivered[2].seq

\* C2: no control envelope is ever put on the consumer channel: the channel,
\* the push in progress and everything the consumer received hold
\* conversational objects only.
C2_NoControlOnChannel ==
    \A i \in 1..Len(ConsumerStream) : ConsumerStream[i].type \notin ControlTypes

\* C2 witness: a control request and a cancel request were read, and a
\* conversational object read after them is on the channel.
C2_Witness ==
    /\ messageChan # <<>>
    /\ \E i, j \in 1..Len(emitted) :
          /\ emitted[i].type = "control_request"
          /\ emitted[j].type = "control_cancel_request"
          /\ i < messageChan[1].seq /\ j < messageChan[1].seq

\* ---------------------------------------------------- outbound requests ----
\* The caller c took the result that the response o stands for: its payload
\* for subtype success, an error carrying its message for subtype error.
TookResponse(c, o) ==
    /\ callerRet[c].kind = "result"
    /\ IF o.response.subtype = "error"
       THEN /\ callerRet[c].result.Error # <<>>
            /\ callerRet[c].result.Error[1].of = o.response.error[1]
       ELSE /\ callerRet[c].result.Error = <<>>
            /\ callerRet[c].result.Response = o.response.response

\* C3 (as stated): when a control_response carrying a request's id arrives
\* while that request is pending, the caller of that request returns exactly
\* that response's payload (or, for subtype error, its message), and a caller
\* that returns a response's result returns one addressed to its own id.
C3_ResponseReachesCaller ==
    \A c \in Callers :
        callerPc[c] = "done" =>
            /\ \A r \in routed : r.c = c => TookResponse(c, emitted[r.seq])
            /\ (callerRet[c].kind = "result"
                  /\ (callerRet[c].result.Error = <<>>
                        \/ callerRet[c].result.Error[1].kind = "response"))
               => \E i \in 1..Len(emitted) :
                     /\ emitted[i].response.request_id = callerId[c]
                     /\ TookResponse(c, emitted[i])

\* C4, state part: a caller that waited and received nothing returned a
\* TimeoutError; after a TimeoutError the request's id is not in
\* pendingResponses; and a response that was found pending went to the caller
\* of the request whose id it carries.
C4_TimeoutState ==
    /\ \A c \in Callers :
          /\ (callerPc[c] = "done" /\ callerRet[c].kind \notin {"usage", "write"}
                /\ respChan[c] = <<>> /\ callerRet[c].kind # "result")
             => (callerRet[c].kind = "timeout" /\ callerCtx[c])
          /\ callerRet[c].kind = "timeout" => callerId[c] \notin DOMAIN pendingResponses
    /\ \A r \in routed : emitted[r.seq].response.request_id = callerId[r.c]

\* C4, step part: the reader taking a control_response whose id is not
\* pending changes no caller's channel or result and no pending entry.
C4_LateDiscarded ==
    (/\ Len(emitted') = Len(emitted) + 1
     /\ emitted'[Len(emitted')].type = "control_response"
     /\ emitted'[Len(emitted')].response.request_id \notin DOMAIN pendingResponses)
    => UNCHANGED <<pendingResponses, respChan, callerRet, callerPc, routed>>

\* C4: when no control_response for a request arrives before its caller's
\* context is done, sendControlRequest returns a TimeoutError and the
\* request's entry is removed from pendingResponses; a response for that id
\* read later is discarded and reaches no other caller.
C4_TimeoutRemovesEntry == []C4_TimeoutState /\ [][C4_LateDiscarded]_vars

\* C4 witness: a caller returned a TimeoutError, a response carrying its id
\* was read afterwards (it was not found pending) while the other caller was
\* waiting for its own response, which has not arrived.
C4_Witness ==
    \E c, d \in Callers :
        /\ c # d
        /\ callerRet[c].kind = "timeout"
        /\ ~closed
        /\ \E i \in 1..Len(emitted) :
              /\ emitted[i].response.request_id = callerId[c]
              /\ \A r \in routed : r.seq # i
        /\ callerPc[d] = "waiting"
        /\ respChan[d] = <<>>
        /\ callerId[d] \in DOMAIN pendingResponses

\* C5 (as stated): once Query.Close has been called on a connection whose
\* process was running and whose reader had met no transport error, and the
\* reader has stopped, no caller of sendControlRequest is left waiting with
\* nothing to receive: Close released every pending caller.
C5_CloseReleasesPending ==
    (closed /\ readerPc = "done" /\ errorChan = <<>> /\ transport.proc = "killed")
    => \A c \in Callers : callerPc[c] = "waiting" => respChan[c] # <<>>

\* ----------------------------------------------------------------- close ----
\* The step is a call of Close on an object Close was called on before.
C6_SecondClose ==
    /\ Len(closeCalls') = Len(closeCalls) + 1
    /\ \E i \in 1..Len(closeCalls) : closeCalls[i].on = closeCalls'[Len(closeCalls')].on

\* After a Close of the Query or of the Client the closed flag is set, q.ctx
\* is cancelled and the transport is released; after a Close of the transport
\* the transport is released; and no Close returned an error.
C6_Released ==
    \A i \in 1..Len(closeCalls) :
        /\ closeCalls[i].err = <<>>
        /\ closeCalls[i].on \in {"Query", "Client"} => closed /\ qctxDone
        /\ transport.closed /\ ~transport.ready /\ ~transport.stdin
        /\ transport.proc # "running"

\* C6: Close is idempotent on a Query, on a SubprocessTransport and on a
\* Client: a second Close returns no error and leaves every part of the
\* state as the first Close left it (closed flag set, transport released,
\* reader, handlers and channels untouched).
C6_CloseIdempotent ==
    /\ []C6_Released
    /\ [][C6_SecondClose =>
             /\ closeCalls'[Len(closeCalls')].err = <<>>
             /\ UNCHANGED <<cfgVars, streamVars, closed, qctxDone, ctxDone, transport,
                            client, callVars, inVars>>]_vars

\* C6 witness: Close was called twice on the same object while the handler
\* of a control request was still running.
C6_Witness ==
    /\ Len(closeCalls) >= 2
    /\ closeCalls[1].on = closeCalls[2].on
    /\ handlers # {}

\* C7 (as stated): with no permission callback configured, no control_response
\* written to the process carries behavior allow.
C7_NeverAllowWithoutCallback ==
    (canUseTool = <<>> \/ (client # <<>> /\ ~optsCanUseTool))
    => \A i \in 1..Len(written) :
          (written[i].type = "control_response" /\ written[i].response.response # <<>>)
          => written[i].response.response[1].behavior # "allow"

\* ----------------------------------------------------------- permissions ----
\* The control_response lines written for the request the process sent as
\* its seq-th object.
ResponsesTo(seq) ==
    {written[i].response : i \in {j \in 1..Len(written) :
                                     /\ written[j].type = "control_response"
                                     /\ written[j].response.request_id = CliId(seq)}}

\* C8: the can_use_tool response carries the callback's decision: for allow,
\* a success response with behavior allow and updatedInput present, equal to
\* the callback's UpdatedInput when it supplied one and to the request's input
\* otherwise; for deny, a success response with behavior deny and the
\* callback's message present; and a response says allow or deny only when
\* the callback did.
C8_DecisionSerialised ==
    \A v \in invoked : \A resp \in ResponsesTo(v.seq) :
        LET input == emitted[v.seq].request.input
            out == v.out
        IN /\ out.kind = "allow" =>
                 /\ resp.subtype = "success"
                 /\ resp.response[1].behavior = "allow"
                 /\ resp.response[1].updatedInput # <<>>
                 /\ resp.response[1].updatedInput[1] =
                       IF out.UpdatedInput.nil THEN input ELSE JObj(out.UpdatedInput.kv)
           /\ out.kind = "deny" =>
                 /\ resp.subtype = "success"
                 /\ resp.response[1].behavior = "deny"
                 /\ resp.response[1].message = <<out.Message>>
           /\ out.kind \notin {"allow", "deny"} => resp.subtype = "error"

\* C8 witness: the callback allowed the use of a tool with a non-empty input
\* without supplying a modified one, and the response was written.
C8_Witness ==
    \E v \in invoked :
        /\ v.out.kind = "allow"
        /\ v.out.UpdatedInput.nil
        /\ emitted[v.seq].request.input.kv # {}
        /\ ResponsesTo(v.seq) # {}

\* ----------------------------------------------------------------- hooks ----
\* The places of the user's configuration that hold a callback: event,
\* matcher index, callback index.
HookPositions ==
    UNION {UNION {{<<e, i, j>> : j \in 1..Len(optsHooks[e][i].Hooks)} :
                     i \in 1..Len(optsHooks[e])} :
              e \in DOMAIN optsHooks}

\* The id the Query holds for the callback at a position.
IdAt(p) == hooks[p[1]][p[2]].CallbackIDs[p[3]]

\* The hook tables mirror the configuration, every callback of every matcher
\* of every event has an id of its own, and the table maps exactly these ids,
\* each to the callback it was given for.
C9_IdsOneToOne ==
    /\ DOMAIN hooks = DOMAIN optsHooks
    /\ \A e \in DOMAIN optsHooks :
          /\ Len(hooks[e]) = Len(optsHooks[e])
          /\ \A i \in 1..Len(optsHooks[e]) :
                Len(hooks[e][i].CallbackIDs) = Len(optsHooks[e][i].Hooks)
    /\ \A p, q \in HookPositions : p # q => IdAt(p) # IdAt(q)
    /\ DOMAIN hookCallbacks = {IdAt(p) : p \in HookPositions}
    /\ \A p \in HookPositions : hookCallbacks[IdAt(p)] = optsHooks[p[1]][p[2]].Hooks[p[3]]

\* C9: hook callback ids are unique within a Query and map one-to-one to the
\* user's callbacks, and no operation modifies hookCallbacks or hooks after
\* NewQuery.
C9_HookTableFixed == []C9_IdsOneToOne /\ [][UNCHANGED <<hooks, hookCallbacks>>]_vars

\* C9 witness: a Query with four callbacks under two events, one of them
\* registered twice, after a hook ran, an unregistered id was asked for and
\* the Query was closed.
C9_Witness ==
    /\ Cardinality(HookPositions) = 4
    /\ Cardinality(DOMAIN hooks) = 2
    /\ invoked # {}
    /\ \E i \in 1..Len(emitted) :
          /\ emitted[i].type = "control_request"
          /\ emitted[i].request.callback_id \notin DOMAIN hookCallbacks
    /\ closed

\* A hook_callback request naming an id that was never registered.
UnregisteredHook(o) ==
    /\ o.type = "control_request"
    /\ o.request.subtype = "hook_callback"
    /\ o.request.callback_id \notin DOMAIN hookCallbacks

\* The reader takes such a request: it starts the handler and stays in its
\* loop; nothing else changes.
C10_ReadStep ==
    (/\ Len(emitted') = Len(emitted) + 1
     /\ UnregisteredHook(emitted'[Len(emitted')])
     /\ ~closed)
    => /\ readerPc' = "select"
       /\ handlers' = handlers \cup {emitted'[Len(emitted')]}
       /\ UNCHANGED <<cfgVars, messageChan, readerMsg, delivered, errorChan,
                      firstResultEvent, closeVars, callVars, invoked>>

\* The handler of such a request returns: it wrote at most one line, an error
\* control_response with the request's id (exactly one when the transport
\* takes the write), invoked no callback and touched no other handler, no
\* outbound request, not the reader and not the connection's state.
C10_HandleStep ==
    \A h \in handlers :
        (UnregisteredHook(h) /\ h \notin handlers')
        => /\ handlers' = handlers \ {h}
           /\ invoked' = invoked
           /\ \/ written' = written /\ (~transport.ready \/ transport.proc # "running")
              \/ /\ Len(written') = Len(written) + 1
                 /\ SubSeq(written', 1, Len(written)) = written
                 /\ written'[Len(written')].type = "control_response"
                 /\ written'[Len(written')].response.subtype = "error"
                 /\ written'[Len(written')].response.request_id = h.request_id
                 /\ written'[Len(written')].response.error # <<>>
                 /\ written'[Len(written')].response.response = <<>>
           /\ UNCHANGED <<cfgVars, streamVars, closed, qctxDone, ctxDone, closeCalls,
                          client, pendingResponses, requestCounter, callerPc, callerId, callerReq,
                          callerCtx, callerRet, respChan, routed>>

\* C10: a hook_callback request naming an unregistered id is answered with an
\* error control_response carrying that request's id, invokes no callback and
\* leaves the reader, the other handlers and the outbound requests as they
\* were.
C10_UnknownHookIsLocal == [][C10_ReadStep /\ C10_HandleStep]_vars

\* C10 witness: the error for an unregistered id was written while the
\* reader was in its loop, another handler was running and a caller was
\* waiting for its response.
C10_Witness ==
    /\ readerPc = "select"
    /\ handlers # {}
    /\ callerPc["c1"] = "waiting"
    /\ \E i \in 1..Len(emitted) :
          /\ UnregisteredHook(emitted[i])
          /\ \E resp \in ResponsesTo(i) : resp.subtype = "error"

\* -------------------------------------------------------- hook dispatch ----
\* A hook_callback request that names a registered id and carries an input
\* parseHookInput accepts.
RegisteredHook(o) ==
    /\ o.type = "control_request"
    /\ o.request.subtype = "hook_callback"
    /\ o.request.callback_id \in DOMAIN hookCallbacks
    /\ ParseHookInputOk(o.request.input)

\* Every recorded invocation made for such a request is the first call of
\* its handler and is a call of the callback registered under the named id.
C11_OnlyNamedCallback ==
    \A v \in invoked :
        RegisteredHook(emitted[v.seq])
        => /\ v.n = 1
           /\ v.cb = hookCallbacks[emitted[v.seq].request.callback_id]

\* The handler of such a request returns: it made exactly one invocation,
\* of the callback registered under the named id, and the request had caused
\* none before.
C11_HandleStep ==
    \A h \in handlers :
        (RegisteredHook(h) /\ h \notin handlers')
        => /\ \A v \in invoked : v.seq # h.seq
           /\ \E out \in HookOutcomes.hook :
                 invoked' = invoked \cup
                    {[seq |-> h.seq, cb |-> hookCallbacks[h.request.callback_id],
                      out |-> out, n |-> 1]}

\* C11: with two or more hook callbacks registered, a hook_callback request
\* naming a registered id (with a well-formed input) invokes the callback
\* registered under that id exactly once and no other callback.
C11_ExactDispatch ==
    /\ [](Cardinality(DOMAIN hookCallbacks) >= 2 => C11_OnlyNamedCallback)
    /\ [][Cardinality(DOMAIN hookCallbacks) >= 2 => C11_HandleStep]_vars

\* C11 witness: two requests naming different registered ids were handled
\* and each invoked its own callback, the two callbacks being different.
C11_Witness ==
    /\ handlers = {}
    /\ \E v, w \in invoked :
          /\ v.seq # w.seq
          /\ v.cb # w.cb
          /\ emitted[v.seq].request.callback_id # emitted[w.seq].request.callback_id

\* ---------------------------------------------------------------- C12 ----
\* No framing error has happened: no line was too long for the scanner and
\* the accumulated text never exceeded the maximum.
FramingErrors == {"decode", "connection"}
NoFramingError ==
    /\ framerPc \notin {"sendDecodeErr", "sendScanErr"}
    /\ \A i \in 1..Len(tErrChan) : tErrChan[i] \notin FramingErrors
    /\ \A i \in 1..Len(queryOut) :
          ~(queryOut[i].kind = "err" /\ queryOut[i].v \in FramingErrors)

\* The objects ReadMessages has emitted or is sending, oldest first, as far
\* as they can still be told apart (a parse error of Query() names none).
RECURSIVE MsgObjs(_)
MsgObjs(q) ==
    IF q = <<>> THEN <<>>
    ELSE (IF Head(q).kind = "msg" THEN <<Head(q).v>> ELSE <<>>) \o MsgObjs(Tail(q))
FramedObjs ==
    MsgObjs(queryOut) \o [i \in 1..Len(tMsgChan) |-> tMsgChan[i].obj]
                      \o [i \in 1..Len(framerMsg) |-> framerMsg[i].obj]

\* Between two lines the buffer holds the lines so far of the object being
\* printed and nothing else: it is empty once the object's last line is in.
C12_BufferFramed ==
    (NoFramingError /\ framerPc \in {"scan", "sendMsg"}) =>
        IF printed # <<>> /\ printed[1].part < printed[1].of
        THEN /\ Len(jsonBuffer) = printed[1].part
             /\ \A i \in 1..Len(jsonBuffer) :
                   jsonBuffer[i].obj = printed[1].obj /\ jsonBuffer[i].part = i
        ELSE jsonBuffer = <<>>

\* No object is emitted twice, and none before its last line was printed.
C12_EmittedOnce ==
    /\ \A i, j \in 1..Len(FramedObjs) : i < j => FramedObjs[i] < FramedObjs[j]
    /\ \A i \in 1..Len(FramedObjs) :
          /\ printed # <<>>
          /\ \/ FramedObjs[i] < printed[1].obj
             \/ FramedObjs[i] = printed[1].obj /\ printed[1].part = printed[1].of

\* Scanning a line: the last line of an object makes the object the one to
\* send and empties the buffer; any other line emits nothing.
C12_ScanStep ==
    (nScanned' = nScanned + 1 /\ NoFramingError' /\ ~ctxDone) =>
        LET l == line'[1]
        IN  IF l # Blank /\ l.part = l.of
            THEN /\ framerPc' = "sendMsg"
                 /\ framerMsg' = <<[type |-> l.type, obj |-> l.obj]>>
                 /\ jsonBuffer' = <<>>
            ELSE /\ framerPc' = "scan"
                 /\ framerMsg' = <<>>
                 /\ tMsgChan' = tMsgChan

\* C12: as long as no framing error has happened, an object the process
\* prints on N >= 1 lines is emitted by ReadMessages exactly once, on the scan
\* of its last line and not before, and the buffer is empty afterwards, so the
\* next object starts on an empty buffer.
C12_OneObjectPerFrame ==
    /\ [](C12_BufferFramed /\ C12_EmittedOnce)
    /\ [][C12_ScanStep]_vars

\* Two objects, the second printed on several lines, both emitted in order.
C12_Witness ==
    /\ NoFramingError
    /\ Len(queryOut) = 2
    /\ queryOut[1].kind = "msg" /\ queryOut[2].kind = "msg"
    /\ printed # <<>>
    /\ printed[1].of >= 2
    /\ printed[1].part = printed[1].of
    /\ queryOut[2].v = printed[1].obj
    /\ jsonBuffer = <<>>

\* ---------------------------------------------------------------- C13 ----
\* C13: overflow is fail-soft: whatever overflowed before, a well-formed
\* object that follows is still emitted.  Stated for the objects printed on
\* a single line that fits the scanner: the scan of such a line makes the
\* object the one to send and leaves the buffer empty.
C13_FollowingObjectEmitted ==
    [][(/\ nScanned' = nScanned + 1
        /\ ~ctxDone
        /\ line'[1] # Blank
        /\ line'[1].of = 1
        /\ ~ScanTooLong(line'[1]))
       => /\ framerPc' = "sendMsg"
          /\ framerMsg' = <<[type |-> line'[1].type, obj |-> line'[1].obj]>>
          /\ jsonBuffer' = <<>>]_vars

\* ---------------------------------------------------------------- C14 ----
\* C14: a decode error of the transport does not end the consumer of the
\* stream: once the streaming reader has put it on the Query's error channel,
\* or the one-shot loop has handed it to its consumer, the reader or loop is
\* still running.
C14_DecodeErrorRecoverable ==
    /\ (\E i \in 1..Len(errorChan) : errorChan[i] = "decode") => readerPc # "done"
    /\ (queryOut # <<>> /\ queryOut[Len(queryOut)] = [kind |-> "err", v |-> "decode"])
           => loopPc # "done"

\* ---------------------------------------------------------------- C15 ----
\* On a Query that is not in streaming mode no call is ever registered,
\* written or waiting, and a call that returned returned the usage error.
C15_NothingPending ==
    ~isStreamingMode =>
        /\ pendingResponses = EmptyMap
        /\ written = <<>>
        /\ requestCounter = 0
        /\ \A c \in Callers :
              /\ callerPc[c] \in {"idle", "done"}
              /\ callerPc[c] = "done" => callerRet[c].kind = "usage"
              /\ respChan[c] = <<>>

\* The step of a call on such a Query: it returns in that step, and neither
\* the transport nor what was written changes.
C15_CallStep ==
    ~isStreamingMode =>
        \A c \in Callers :
            (callerPc[c] = "idle" /\ callerPc'[c] # "idle") =>
                /\ callerPc'[c] = "done"
                /\ callerRet'[c].kind = "usage"
                /\ callerReq'[c] \in ApiRequests
                /\ transport' = transport
                /\ written' = written
                /\ pendingResponses' = pendingResponses

\* C15: in one-shot mode every outbound control request (Interrupt,
\* SetPermissionMode, SetModel through sendControlRequest) returns the usage
\* error at once: nothing is written, nothing is registered in
\* pendingResponses, and the call never waits.
C15_UsageErrorAtOnce ==
    /\ []C15_NothingPending
    /\ [][C15_CallStep]_vars

\* Two calls of different methods have returned on a one-shot Query.
C15_Witness ==
    /\ ~isStreamingMode
    /\ \A c \in Callers : callerPc[c] = "done" /\ callerRet[c].kind = "usage"
    /\ callerReq["c1"] = Interrupt
    /\ callerReq["c2"] = SetModel(<<"m">>)

\* ---------------------------------------------------------------- C16 ----
\* With handlers that have not returned, the reader is where its own loop
\* put it, and its next step is possible: it can take any next object at the
\* select, and push to the consumer channel when that has room.
C16_ReaderFree ==
    handlers # {} =>
        /\ readerPc \in {"select", "push"}
        /\ (readerPc = "select" /\ Len(emitted) < MaxEmit) =>
              \A o \in BlockedObjects(Len(emitted) + 1) :
                  ENABLED (ReaderRecvMsg(o) /\ UNCHANGED pipeVars)
        /\ (readerPc = "push" /\ Len(messageChan) < ChanCap) => ENABLED ReaderPush

\* What the reader does with an object it reads while handlers have not
\* returned: a control_request gets a handler of its own and the reader is
\* back at the select; a control_response for a pending request is routed to
\* its caller; anything else is the object to push.  The handlers that were
\* waiting are left as they were.
C16_ReadStep ==
    (handlers # {} /\ emitted' # emitted) =>
        LET o == emitted'[Len(emitted')]
        IN  /\ handlers \subseteq handlers'
            /\ CASE o.type = "control_request" ->
                      /\ handlers' = handlers \cup {o}
                      /\ readerPc' = "select"
                 [] o.type = "control_response" ->
                      /\ handlers' = handlers
                      /\ readerPc' = "select"
                      /\ o.response.request_id \in DOMAIN pendingResponses =>
                            LET c == pendingResponses[o.response.request_id]
                            IN  /\ respChan'[c] = <<ResultOk(o.response.response)>>
                                /\ o.response.request_id \notin DOMAIN pendingResponses'
                 [] OTHER ->
                      /\ handlers' = handlers
                      /\ readerPc' = "push"
                      /\ readerMsg' = <<o>>

\* C16: a handler that does not return never holds up the reader: with any
\* number of handlers waiting, the reader still forwards conversational
\* objects, routes control_responses to pending requests and dispatches
\* further control_requests.
C16_BlockedHandlerLeavesReaderFree ==
    /\ []C16_ReaderFree
    /\ [][C16_ReadStep]_vars

\* Two handlers have not returned; the conversational object read after both
\* requests has reached the consumer.
C16_Witness ==
    /\ Cardinality(handlers) = 2
    /\ \E i \in 1..Len(delivered) :
          /\ IsConversational(delivered[i])
          /\ \A h \in handlers : h.seq < delivered[i].seq

\* ---------------------------------------------------------------- C17 ----
\* The consumer channel never holds more than its capacity.
C17_Bounded == Len(messageChan) <= ChanCap

\* While the connection is open and nothing was cancelled, every
\* conversational object read so far is, in the order read, delivered,
\* buffered, or the one the reader is pushing.
C17_NothingLost ==
    (~closed /\ ~ctxDone /\ ~qctxDone) => ConsumerStream = ConvEmitted

\* The reader leaves the push in two ways only: the object went behind what
\* the channel holds, which had room for it, or a context was done (the
\* caller's, or the Query's, which Close cancels).
C17_PushStep ==
    (readerPc = "push" /\ readerPc' # "push") =>
        \/ /\ Len(messageChan) < ChanCap
           /\ messageChan' = Append(messageChan, readerMsg[1])
           /\ readerPc' = "select"
        \/ /\ ctxDone \/ qctxDone
           /\ messageChan' = messageChan
           /\ readerPc' = "done"

\* C17: the consumer channel is bounded; with the channel full the push waits
\* until there is room, the caller's context is cancelled or the connection
\* is closed; and while the connection is open and uncancelled no
\* conversational object is dropped or overtaken.
C17_BoundedBackpressure ==
    /\ [](C17_Bounded /\ C17_NothingLost)
    /\ [][C17_PushStep]_vars

\* The channel is full and the reader is waiting to push one more object.
C17_Witness ==
    /\ Len(messageChan) = ChanCap
    /\ readerPc = "push"
    /\ ~closed /\ ~ctxDone /\ ~qctxDone

\* ---------------------------------------------------------------- C18 ----
ResultRead == \E i \in 1..Len(emitted) : emitted[i].type = "result"

\* The signal is fired exactly when a result object has been read, and a
\* waiter that returned by the signal returned after one was read.
C18_FiredIffResultRead ==
    /\ ~closed => (firstResultEvent <=> ResultRead)
    /\ firstResultEvent => ResultRead
    /\ waitRet = "signal" => ResultRead

\* Once fired the signal stays fired, and the reader's step on a result
\* object, the first or a later one, leaves it fired and makes the object the
\* one to push to the consumer.
C18_ResultStep ==
    /\ firstResultEvent => firstResultEvent'
    /\ (emitted' # emitted /\ emitted'[Len(emitted')].type = "result" /\ ~closed) =>
          /\ firstResultEvent'
          /\ readerPc' = "push"
          /\ readerMsg' = <<emitted'[Len(emitted')]>>

\* C18: the first-result signal is one-time and idempotent: the first result
\* object read fires it, a later one leaves it fired, it is not fired before a
\* result object was read, and the result object itself goes on to the
\* consumer.
C18_FirstResultOnce ==
    /\ []C18_FiredIffResultRead
    /\ [][C18_ResultStep]_vars

\* Two result objects were read and delivered; a waiter returned by the signal.
C18_Witness ==
    /\ Len(delivered) >= 2
    /\ delivered[1].type = "result" /\ delivered[2].type = "result"
    /\ firstResultEvent
    /\ waitRet = "signal"

\* ---------------------------------------------------------------- C19 ----
\* C19: an error the transport reports is propagated before the reader stops:
\* a reader that has stopped, with nothing cancelled or closed and no error
\* on the Query's error channel, has left no error unread on the transport's
\* error channel.
C19_TransportErrorPropagated ==
    (readerPc = "done" /\ ~ctxDone /\ ~qctxDone /\ ~closed /\ errorChan = <<>>)
        => tErrChan = <<>>

\* ---------------------------------------------------------------- C20 ----
\* Where in `written` the control_responses tagged with the id of the
\* process's seq-th object are.
ResponseIndexes(seq) ==
    {j \in 1..Len(written) : /\ written[j].type = "control_response"
                             /\ written[j].response.request_id = CliId(seq)}

\* The transport has accepted every write so far and would accept one now.
Writable == ~closed /\ transport.ready /\ transport.stdin /\ transport.proc = "running"

\* C20: every inbound control_request read while the connection is open gets
\* exactly one control_response, tagged with its request_id, of subtype
\* success with a payload or error with a message and never both.  Stated for
\* the requests whose handler has returned while the transport is still
\* writable.
C20_ExactlyOneResponse ==
    \A i \in 1..Len(emitted) :
        (/\ emitted[i].type = "control_request"
         /\ emitted[i] \notin handlers
         /\ Writable)
        => /\ Cardinality(ResponseIndexes(i)) = 1
           /\ \A j \in ResponseIndexes(i) :
                 \/ /\ written[j].response.subtype = "success"
                    /\ written[j].response.response # <<>>
                    /\ written[j].response.error = <<>>
                 \/ /\ written[j].response.subtype = "error"
                    /\ written[j].response.error # <<>>
                    /\ written[j].response.response = <<>>

\* ---------------------------------------------------------------- C21 ----
\* The handling of the process's seq-th object failed inside the SDK: the
\* subtype is not one the SDK handles, the hook input does not decode, or
\* the user's callback returned an error.
LocalFailure(seq) ==
    LET request == emitted[seq].request
    IN \/ request.subtype \notin {"can_use_tool", "hook_callback", "mcp_message"}
       \/ /\ request.subtype = "hook_callback"
          /\ ~ParseHookInputOk(request.input)
       \/ \E v \in invoked : /\ v.seq = seq
                             /\ \/ v.out = CallbackError
                                \/ v.out.kind = "hook_err"

\* The reader is in its loop, no error was surfaced and the transport is
\* as connected.
ConnectionContinues ==
    /\ readerPc \in {"select", "push"}
    /\ errorChan = <<>>
    /\ Writable

\* Every answered request has one response: an error with a message when
\* its handling failed locally, a success otherwise, whatever came before.
C21_AnsweredInKind ==
    \A i \in 1..Len(emitted) :
        (emitted[i].type = "control_request" /\ emitted[i] \notin handlers)
        => /\ Cardinality(ResponseIndexes(i)) = 1
           /\ \A j \in ResponseIndexes(i) :
                 IF LocalFailure(i)
                 THEN /\ written[j].response.subtype = "error"
                      /\ written[j].response.error # <<>>
                 ELSE written[j].response.subtype = "success"

\* A step that writes an error control_response changes nothing of the
\* reader, the channels, the transport or the other handlers.
C21_ErrorStep ==
    (/\ Len(written') = Len(written) + 1
     /\ written'[Len(written')].type = "control_response"
     /\ written'[Len(written')].response.subtype = "error")
    => /\ UNCHANGED <<readerPc, readerMsg, messageChan, errorChan, transport,
                      closed, qctxDone, pendingResponses, firstResultEvent>>
       /\ \E h \in handlers : handlers' = handlers \ {h}

\* C21: a failure inside one inbound control exchange (unsupported subtype,
\* a permission or hook callback returning an error, an undecodable hook
\* input) is answered with an error control_response for that request and
\* the connection continues: the reader keeps running and the other
\* requests, later ones included, are answered as their own handling went.
C21_LocalErrorRecovered ==
    /\ [](readerPc # "idle" => ConnectionContinues)
    /\ []C21_AnsweredInKind
    /\ [][C21_ErrorStep]_vars

\* A request failed and was answered with an error, and a request read
\* after it was answered with a success written after that error.
C21_Witness ==
    \E i, k \in 1..Len(emitted) :
        /\ i < k
        /\ emitted[i].type = "control_request" /\ emitted[i] \notin handlers
        /\ emitted[k].type = "control_request" /\ emitted[k] \notin handlers
        /\ LocalFailure(i) /\ ~LocalFailure(k)
        /\ ConnectionContinues
        /\ \E a \in ResponseIndexes(i), b \in ResponseIndexes(k) :
              /\ a < b
              /\ written[a].response.subtype = "error"
              /\ written[b].response.subtype = "success"

\* ---------------------------------------------------------------- C22 ----
\* The methods HandleRequest knows.
McpMethods == {"initialize", "tools/list", "tools/call", "notifications/initialized"}

\* The mcp_message of the process's seq-th object names a server that is not
\* registered, a method HandleRequest does not know, or, in a tools/call, a
\* tool the server does not have.
McpUnknown(seq) ==
    LET request == emitted[seq].request
        message == request.message
    IN \/ request.server_name \notin DOMAIN sdkMCPServers
       \/ message.method \notin McpMethods
       \/ /\ message.method = "tools/call"
          /\ \A i \in 1..Len(sdkMCPServers[request.server_name].Tools) :
                sdkMCPServers[request.server_name].Tools[i].Name # message.params.name

\* The requests that were answered.
Answered == {i \in 1..Len(emitted) : /\ emitted[i].type = "control_request"
                                     /\ emitted[i] \notin handlers}

\* C22: an mcp_message naming an unknown server, an unknown method or, for
\* tools/call, an unknown tool is answered with a JSON-RPC error object that
\* carries the request's id; no tool handler is invoked for it and the
\* connection continues.
C22_McpUnknownIsJsonRpcError ==
    /\ readerPc # "idle" => ConnectionContinues
    /\ \A i \in Answered :
          McpUnknown(i)
          => /\ \A v \in invoked : v.seq # i
             /\ Cardinality(ResponseIndexes(i)) = 1
             /\ \A j \in ResponseIndexes(i) :
                   /\ written[j].response.subtype = "success"
                   /\ LET rpc == written[j].response.response[1].mcp_response
                      IN /\ rpc.jsonrpc = "2.0"
                         /\ rpc.id = emitted[i].request.message.id
                         /\ rpc.result = <<>>
                         /\ rpc.error # <<>>
                         /\ rpc.error[1].code = -32601

\* A tools/call of a tool the server does not have was answered with a
\* JSON-RPC error after a call of a registered tool ran its handler.
C22_Witness ==
    \E i, k \in Answered :
        /\ i < k
        /\ ~McpUnknown(i) /\ \E v \in invoked : v.seq = i
        /\ McpUnknown(k)
        /\ emitted[k].request.server_name \in DOMAIN sdkMCPServers
        /\ emitted[k].request.message.method = "tools/call"
        /\ \E j \in ResponseIndexes(k) :
              written[j].response.response[1].mcp_response.error # <<>>

\* ---------------------------------------------------------------- C23 ----
\* The JSON-RPC object sent back for the process's seq-th object.
McpResponses(seq) ==
    {written[j].response.response[1].mcp_response : j \in ResponseIndexes(seq)}

\* The tools of the SDK server registered under the name n, as the user
\* passed them to NewSDKServer.
RegisteredTools(n) == IF n = "tools" THEN SDKServer.tools ELSE <<>>

\* The map the handler receives for the arguments the request supplies: the
\* object's members, the nil map when the request has none.
SuppliedArguments(a) == IF a.t = "object" THEN Map(a.kv) ELSE NilMap

\* An answered tools/list has the registered tools, in registration order,
\* each with its name, description and schema, and ran no handler.
C23_ListInOrder ==
    \A i \in Answered :
        LET request == emitted[i].request
            tools == RegisteredTools(request.server_name)
        IN (/\ request.server_name \in DOMAIN sdkMCPServers
            /\ request.message.method = "tools/list")
           => /\ \A v \in invoked : v.seq # i
              /\ McpResponses(i) =
                    {JsonRpcResult(request.message.id,
                        [tools |-> [k \in 1..Len(tools) |->
                                       [name |-> tools[k].Name,
                                        description |-> tools[k].Description,
                                        inputSchema |-> tools[k].InputSchema]]])}

\* An answered tools/call of a registered tool ran that tool's handler once,
\* with the supplied arguments, and no other handler; the answer is the
\* handler's value as result, or an error with the handler's message.
C23_CallOnce ==
    \A i \in Answered :
        LET request == emitted[i].request
            tools == RegisteredTools(request.server_name)
            calls == {v \in invoked : v.seq = i}
        IN (/\ request.server_name \in DOMAIN sdkMCPServers
            /\ request.message.method = "tools/call"
            /\ \E k \in 1..Len(tools) : tools[k].Name = request.message.params.name)
           => /\ Cardinality(calls) = 1
              /\ \A v \in calls :
                    /\ v.n = 1
                    /\ LET server == sdkMCPServers[request.server_name]
                       IN /\ v.cb[1] = server.Name
                          /\ \E k \in 1..Len(tools) :
                                /\ tools[k].Name = request.message.params.name
                                /\ server.Tools[v.cb[2]].Handler = tools[k].Handler
                    /\ v.cb[3] = SuppliedArguments(request.message.params.arguments)
                    /\ McpResponses(i) =
                          {IF v.out.kind = "tool_err"
                           THEN JsonRpcError(request.message.id, -32603, v.out.value)
                           ELSE JsonRpcResult(request.message.id, v.out.value)}

\* C23: tools/list returns every registered tool in registration order with
\* name, description and schema; tools/call of a registered tool invokes that
\* tool's handler exactly once with the supplied arguments and no other
\* handler, and returns the handler's value as the result or a JSON-RPC
\* error with the handler's message.
C23_ListAndCall == C23_ListInOrder /\ C23_CallOnce

\* A tools/list and a tools/call of the second registered tool, with
\* arguments, were both answered, the handler having returned an error.
C23_Witness ==
    \E i, k \in Answered :
        /\ emitted[i].request.message.method = "tools/list"
        /\ emitted[i].request.server_name \in DOMAIN sdkMCPServers
        /\ McpResponses(i) # {}
        /\ emitted[k].request.message.method = "tools/call"
        /\ emitted[k].request.message.params.name = "calculate"
        /\ emitted[k].request.message.params.arguments = ToolArguments
        /\ \E v \in invoked : v.seq = k /\ v.out.kind = "tool_err"

\* ---------------------------------------------------------------- C24 ----
\* The initialize control requests written to the process.
InitializeLines ==
    {j \in 1..Len(written) : /\ written[j].type = "control_request"
                             /\ written[j].request.subtype = "initialize"}

\* Initialize has returned, with success or with an error.
InitReturned == callerPc[InitCaller] = "returned"
InitOk ==
    /\ callerRet[InitCaller].kind = "result"
    /\ callerRet[InitCaller].result.Error = <<>>

\* At most one initialize request is written, and one was written when the
\* caller waits; while Initialize has not returned with success the Query
\* is not initialized and GetInitResult gives nil; after a success it gives
\* the payload of the success response routed to the caller.
C24_InitState ==
    /\ Cardinality(InitializeLines) <= 1
    /\ callerPc[InitCaller] = "waiting" => Cardinality(InitializeLines) = 1
    /\ \A j \in InitializeLines : written[j].request = InitializeRequest(hooks)
    /\ ~(InitReturned /\ InitOk) => ~initialized /\ GetInitResult = <<>>
    /\ (InitReturned /\ InitOk)
       => /\ initialized
          /\ \E r \in routed :
                /\ r.c = InitCaller
                /\ emitted[r.seq].response.subtype = "success"
                /\ emitted[r.seq].response.request_id = callerId[InitCaller]
                /\ GetInitResult = emitted[r.seq].response.response

\* C24: Initialize in streaming mode sends one initialize control request
\* and waits for the response; on success the payload is recorded and
\* GetInitResult returns exactly it from then on; on failure (an error
\* response, a timeout, a transport error) the Query is not marked
\* initialized and GetInitResult returns nothing.
C24_InitializeRecordsResult ==
    /\ []C24_InitState
    /\ [][initialized => (initialized' /\ initResult' = initResult)]_vars

\* Initialize returned with success and the connection was closed after it.
C24_Witness ==
    /\ InitReturned /\ InitOk /\ initialized /\ GetInitResult # <<>>
    /\ closed

\* Initialize returned after an error response.
C24_WitnessError ==
    /\ InitReturned
    /\ callerRet[InitCaller].kind = "result"
    /\ callerRet[InitCaller].result.Error # <<>>
    /\ ~initialized

\* ---------------------------------------------------------------- C25 ----
\* The caller c leaves its wait through "case <-ctx.Done()".
TimesOut(c) ==
    /\ callerPc[c] = "waiting"
    /\ callerPc'[c] = "done"
    /\ callerRet'[c].kind = "timeout"

\* C25: a caller's context being cancelled or timing out during the outbound
\* wait only removes that caller's own pending entry: nothing is written,
\* the process is neither stopped nor signalled, the reader keeps running,
\* and the other pending entries and callers are as they were.
C25_TimeoutOnlyDeregisters ==
    [][\A c \in Callers :
          TimesOut(c)
          => /\ DOMAIN pendingResponses' = DOMAIN pendingResponses \ {callerId[c]}
             /\ \A id \in DOMAIN pendingResponses' :
                   pendingResponses'[id] = pendingResponses[id]
             /\ UNCHANGED <<written, transport, closed, qctxDone, ctxDone, closeCalls,
                            streamVars, respChan, routed, inVars, requestCounter>>
             /\ \A d \in Callers \ {c} :
                   /\ callerPc'[d] = callerPc[d]
                   /\ callerRet'[d] = callerRet[d]
                   /\ callerCtx'[d] = callerCtx[d]]_vars

\* One caller has timed out while another, registered before it, still waits
\* with its entry pending, the reader in its loop and the process running.
C25_Witness ==
    \E c, d \in Callers :
        /\ c # d
        /\ callerPc[c] = "done" /\ callerRet[c].kind = "timeout"
        /\ callerId[c] \notin DOMAIN pendingResponses
        /\ callerPc[d] = "waiting"
        /\ callerId[d] \in DOMAIN pendingResponses
        /\ callerId[d][1] < callerId[c][1]
        /\ readerPc = "select"
        /\ Writable

\* ---------------------------------------------------------------- C26 ----
\* The ids sendControlRequest has given out so far that the state still
\* shows: those of the callers that have called, those written to the
\* process and those in the table.
UsedIds ==
    {callerId[c] : c \in {d \in Callers : callerPc[d] # "idle"}}
    \cup WrittenIds \cup DOMAIN pendingResponses

\* The caller c registers its request in this step.
Registers(c) == callerPc[c] = "idle" /\ callerPc'[c] = "registered"

\* No id is ahead of the counter, callers that have called hold distinct
\* ids, and each entry of the table belongs to the caller holding its id.
C26_IdsDistinct ==
    /\ \A id \in UsedIds : id[1] >= 1 /\ id[1] <= requestCounter
    /\ \A c, d \in Callers :
          (c # d /\ callerPc[c] # "idle" /\ callerPc[d] # "idle")
          => callerId[c] # callerId[d]
    /\ \A id \in DOMAIN pendingResponses : callerId[pendingResponses[id]] = id

\* C26: outbound request ids are never reused within a Query: the id a call
\* of sendControlRequest registers differs from every id given out before,
\* pendingResponses never holds two waiters for one id, and a new request
\* never takes over the entry of a used id.
C26_RequestIdsNeverReused ==
    /\ []C26_IdsDistinct
    /\ [][\A c \in Callers :
             Registers(c)
             => /\ callerId'[c] \notin UsedIds
                /\ callerId'[c] \in DOMAIN pendingResponses'
                /\ pendingResponses'[callerId'[c]] = c
                /\ \A id \in DOMAIN pendingResponses :
                      /\ id \in DOMAIN pendingResponses'
                      /\ pendingResponses'[id] = pendingResponses[id]]_vars

\* Two callers wait at once, their ids drawn with the same random bytes,
\* each with its own entry.
C26_Witness ==
    /\ \A c \in Callers : /\ callerPc[c] = "waiting"
                          /\ callerId[c] \in DOMAIN pendingResponses
                          /\ pendingResponses[callerId[c]] = c
    /\ callerId["c1"][2] = callerId["c2"][2]
    /\ callerId["c1"] # callerId["c2"]

\* ---------------------------------------------------------------- C27 ----
\* The writers between Lock and Unlock.
InWrite == {w \in Writers : writerPc[w] \in {"checks", "write"}}

\* Every fragment on the pipe follows the previous fragment of its own line
\* and, unless the pipe ends there, is followed by the next one.
Contiguous ==
    \A i \in 1..Len(stdinPipe) :
        LET f == stdinPipe[i]
        IN /\ f.part > 1 => (i > 1 /\ stdinPipe[i - 1] = Fragment(f.w, f.part - 1))
           /\ (f.part < LineParts /\ i < Len(stdinPipe))
              => stdinPipe[i + 1] = Fragment(f.w, f.part + 1)

\* C27: writes to the transport are atomic with respect to each other: the
\* lines of outbound control requests, of handlers' control_responses and of
\* Client.SendQuery, written concurrently, reach stdin each in one piece,
\* never interleaved; a line is cut short only by a failed write, after which
\* nothing more is written.
C27_WritesContiguous ==
    /\ Contiguous
    /\ Cardinality(InWrite) <= 1
    /\ \A w \in InWrite : writeMu = <<w>>
    /\ \A i \in 1..Len(stdinPipe) :
          (i = Len(stdinPipe) /\ stdinPipe[i].part < LineParts)
          => \/ writerPc[stdinPipe[i].w] = "write"
             \/ /\ writerPc[stdinPipe[i].w] = "failed"
                /\ ~transport.ready \/ closePc = "done"

\* One writer is in the middle of its line while the two others wait for the
\* mutex.
C27_Witness ==
    \E w \in Writers :
        /\ writerPc[w] = "write" /\ writerPart[w] = 1
        /\ \A v \in Writers \ {w} : writerPc[v] = "lock"

\* The three lines are on the pipe, whole.
C27_WitnessAllWritten ==
    /\ \A w \in Writers : writerPc[w] = "done"
    /\ Len(stdinPipe) = 3 * LineParts
    /\ Len(written) = 3

\* ---------------------------------------------------------------- C28 ----
\* The concatenation of the sequences of ss.
RECURSIVE Concat(_)
Concat(ss) == IF ss = <<>> THEN <<>> ELSE Head(ss) \o Concat(Tail(ss))

\* What the caller of ReceiveMessages / ReceiveResponse has received or is
\* about to: the messages taken, those in the channel, the one being sent.
ClientStream == Concat(yielded) \o msgChan \o recvMsg

\* m is a parse error.
IsParseError(m) == "kind" \in DOMAIN m /\ m.kind = "err"

\* The objects the Client took from the Query's channel that ParseMessage
\* rejects.
Rejected == {i \in 1..Len(delivered) : delivered[i].type \notin KnownTypes}

\* C28: a conversational object whose top-level type is missing or unknown
\* gives a typed parse error that reaches the caller consuming the stream;
\* it is not silently dropped.  For Client.ReceiveMessages: the stream the
\* caller gets holds as many parse errors as objects were rejected.
C28_ParseErrorSurfaced ==
    Cardinality({j \in 1..Len(ClientStream) : IsParseError(ClientStream[j])})
        = Cardinality(Rejected)

\* ---------------------------------------------------------------- C29 ----
\* The messages among the objects s, in order: the objects ParseMessage
\* accepts.
RECURSIVE Messages(_)
Messages(s) ==
    IF s = <<>> THEN <<>>
    ELSE IF Head(s).type \in KnownTypes THEN <<Head(s)>> \o Messages(Tail(s))
    ELSE Messages(Tail(s))

\* What the k-th call has yielded or is about to yield.
CallStream(k) ==
    IF k = Len(yielded) THEN yielded[k] \o msgChan \o recvMsg ELSE yielded[k]

\* The k-th call is over: its goroutine returned and its channel is drained.
CallOver(k) == k < Len(yielded) \/ (recvPc = "closed" /\ msgChan = <<>>)

\* The Query's channel is closed and empty.
StreamEnded == readerPc = "done" /\ messageChan = <<>>

\* C29: successive calls of Client.ReceiveResponse, each drained to
\* completion, partition the message stream: the calls' messages, one call
\* after the other, are the messages taken from the connection, none lost,
\* duplicated or reordered; a call yields nothing after a ResultMessage and
\* its channel is closed then; a call that is over ended with a
\* ResultMessage unless the connection ended.
C29_ResponsesPartitionStream ==
    /\ ClientStream = Messages(delivered)
    /\ \A k \in 1..Len(yielded) :
          LET s == CallStream(k)
          IN /\ \A j \in 1..Len(s) : s[j].type = "result" => j = Len(s)
             /\ (k = Len(yielded) /\ recvMsg = <<>> /\ s # <<>>
                 /\ s[Len(s)].type = "result")
                => recvPc = "closed"
             /\ CallOver(k)
                => \/ s # <<>> /\ s[Len(s)].type = "result"
                   \/ StreamEnded

\* Two calls are over, the first having yielded a message and then a
\* ResultMessage, the second the ResultMessage after it, and the connection
\* is still open.
C29_Witness ==
    /\ Len(yielded) = 2
    /\ CallOver(2)
    /\ Len(yielded[1]) = 2 /\ yielded[1][2].type = "result"
    /\ Len(yielded[2]) = 1 /\ yielded[2][1].type = "result"
    /\ yielded[2][1].seq > yielded[1][2].seq
    /\ ~StreamEnded

\* ---------------------------------------------------------------- C30 ----
\* The connection has ended: Close was called, the reader's context was
\* cancelled, the transport has reported an error, or the transport's
\* channels are closed.
ConnectionEnded == closed \/ ctxDone \/ tErrChan # <<>> \/ ChansClosed

\* The reader has returned; its deferred close(q.messageChan) has run.
ChannelClosed == readerPc = "done"

MatcherPositions ==
    UNION {{<<e, i>> : i \in 1..Len(optsHooks[e])} : e \in DOMAIN optsHooks}

\* The elements of a sequence.
Range(s) == {s[i] : i \in 1..Len(s)}

\* The hooks section hs lists, for every configured event that has
\* matchers, its matchers in configured order: each entry has the matcher's
\* pattern, its timeout when one is set, and the ids under which the
\* matcher's callbacks are registered, in callback order, and nothing else.
ReproducesTable(hs) ==
    /\ DOMAIN hs = {e \in DOMAIN optsHooks : Len(optsHooks[e]) > 0}
    /\ \A e \in DOMAIN hs :
          /\ DOMAIN hs[e] = 1..Len(optsHooks[e])
          /\ \A i \in 1..Len(optsHooks[e]) :
                LET mc == hs[e][i]
                    m == optsHooks[e][i]
                IN /\ DOMAIN mc = {"matcher", "hookCallbackIds"}
                                  \cup (IF m.Timeout = <<>> THEN {} ELSE {"timeout"})
                   /\ mc.matcher = m.Matcher
                   /\ m.Timeout # <<>> => mc.timeout = m.Timeout[1]
                   /\ Len(mc.hookCallbackIds) = Len(m.Hooks)
                   /\ \A k \in 1..Len(m.Hooks) :
                         /\ mc.hookCallbackIds[k] \in DOMAIN hookCallbacks
                         /\ hookCallbacks[mc.hookCallbackIds[k]] = m.Hooks[k]

\* The id lists of two different matchers of the hooks section hs have no
\* id in common, and no list names an id twice.
IdListsDisjoint(hs) ==
    /\ \A p, q \in MatcherPositions :
          p # q => Range(hs[p[1]][p[2]].hookCallbackIds)
                   \cap Range(hs[q[1]][q[2]].hookCallbackIds) = {}
    /\ \A p \in MatcherPositions :
          LET ids == hs[p[1]][p[2]].hookCallbackIds
          IN \A k, l \in 1..Len(ids) : k # l => ids[k] # ids[l]

\* C31: the hooks section of the initialize request reproduces the
\* registration table by id only: for each configured event it lists that
\* event's matchers in configured order, each with its matcher pattern (and
\* timeout when set) and the ids of its callbacks in callback order, and the
\* id lists of any two matchers are disjoint. The request has a hooks section
\* exactly when the configuration names an event.
C31_HooksSectionById ==
    \A j \in InitializeLines :
        LET req == written[j].request
        IN /\ ("hooks" \in DOMAIN req) <=> (DOMAIN optsHooks # {})
           /\ "hooks" \in DOMAIN req
              => ReproducesTable(req.hooks) /\ IdListsDisjoint(req.hooks)

\* C31 witness: the initialize request of a Query with one matcher under
\* each of two events, one of them with a timeout, was written with two
\* distinct non-empty id lists, and Initialize returned.
C31_Witness ==
    /\ InitReturned
    /\ DOMAIN optsHooks = {"PreToolUse", "PostToolUse"}
    /\ \E j \in InitializeLines :
          LET hs == written[j].request.hooks
          IN /\ DOMAIN hs = {"PreToolUse", "PostToolUse"}
             /\ "timeout" \in DOMAIN hs["PreToolUse"][1]
             /\ Len(hs["PreToolUse"][1].hookCallbackIds) = 2
             /\ Len(hs["PostToolUse"][1].hookCallbackIds) = 1
             /\ hs["PreToolUse"][1].hookCallbackIds # hs["PostToolUse"][1].hookCallbackIds

\* C31 witness: an event configured without matchers has no entry in the
\* hooks section that was written.
C31_WitnessNoMatchers ==
    /\ "Stop" \in DOMAIN optsHooks
    /\ \E j \in InitializeLines : DOMAIN written[j].request.hooks = {"PreToolUse"}

\* ---------------------------------------------------------------- C32 ----
\* The reader is inside handleControlResponse's send, waiting for room on a
\* result channel.
ReaderInSend == readerPc = "blocked"

\* While the reader runs, the result channel of every pending request is
\* empty: a send on it has room.
PendingHasRoom ==
    readerPc \in {"idle", "select", "push"}
    => \A id \in DOMAIN pendingResponses : respChan[pendingResponses[id]] = <<>>

\* A step in which handleControlResponse found a pending request puts the
\* result on that request's channel in the same step.
C32_DeliverStep ==
    \A r \in routed' \ routed :
        /\ Len(respChan[r.c]) = 0
        /\ Len(respChan'[r.c]) = 1
        /\ readerPc' = "select"

\* C32: delivering a control_response never blocks the reader loop: for
\* every interleaving of responses (duplicates and late ones included),
\* caller timeouts and transport errors, the send handleControlResponse makes
\* on a pending request's result channel completes at once.
C32_DeliveryNeverBlocks ==
    /\ [](~ReaderInSend /\ PendingHasRoom)
    /\ [][C32_DeliverStep]_vars

\* C32 witness: a response was delivered and the same response came again,
\* a caller gave up with a timeout, and the reader ended on a transport
\* error.
C32_Witness ==
    /\ \E r \in routed : \E k \in (r.seq + 1)..Len(emitted) :
          emitted[k].response.request_id = emitted[r.seq].response.request_id
    /\ \E c \in Callers : callerRet[c].kind = "timeout"
    /\ readerPc = "done"
    /\ errorChan # <<>>

\* ---------------------------------------------------------------- C33 ----
\* Nobody closed the Query or cancelled a context, and the transport's
\* goroutine met no framing error: the stream ends only because the
\* process exits.
OnlyProcessExit ==
    /\ ~closed /\ ~ctxDone /\ ~qctxDone
    /\ NoFramingError
    /\ \A i \in 1..Len(errorChan) : errorChan[i] \notin FramingErrors

\* The objects the transport's goroutine decoded that the reader has not
\* taken: those buffered in its message channel and the one it is sending.
NotTaken == tMsgChan \o framerMsg

\* C33: no conversational object is lost at the end of the stream: when the
\* process emitted objects and then exited, with or without an error, and
\* nobody closes or cancels, the consumer channel is closed (the reader has
\* returned) only after every object emitted before the exit was taken from
\* the transport and passed on to the consumer.
C33_NoObjectLostAtEnd ==
    (readerPc = "done" /\ OnlyProcessExit) => NotTaken = <<>>

\* ---------------------------------------------------------------- C34 ----
\* The call of sendControlRequest by c has returned.
HasReturned(c) == callerPc[c] \in {"done", "returned"}

\* C34: whenever a call of sendControlRequest has returned, by any path (a
\* success or error response, a transport error delivered to the waiter, a
\* failed write, a timeout or cancellation), the id it registered is no
\* longer a key of pendingResponses: the map holds entries only for calls
\* still in progress.
C34_PendingOnlyInProgress ==
    \A c \in Callers : HasReturned(c) => callerId[c] \notin DOMAIN pendingResponses

\* ---------------------------------------------------------------- C35 ----
\* C35: Client.Close can always make progress: a Close called while another
\* goroutine is inside Client.Interrupt, SetPermissionMode or SetModel
\* waiting for a control response completes, and releases that waiting
\* call, whether or not the response ever arrives or the waiter's own
\* context expires.
C35_CloseCompletes ==
    (clientClosePc = "lock")
    ~> (clientClosePc = "done" /\ \A c \in Callers : callerPc[c] # "waiting")

\* ---------------------------------------------------------------- C36 ----
\* c is inside sendControlRequest's select with nothing to receive and its
\* own context not done: only a result put on its channel can make it
\* return before that context expires.
WaitsForResult(c) ==
    /\ callerPc[c] = "waiting"
    /\ ~callerCtx[c]
    /\ respChan[c] = <<>>

\* C36: an outbound control request never waits on a dead reader: once the
\* reader loop has terminated (the transport's stream ended, a transport
\* error was reported, or the reader's context was cancelled), every
\* sendControlRequest call pending then or started afterwards returns an
\* error without having to wait for its own context to expire.  Stated as:
\* with the reader terminated, no call is left in its wait with nothing to
\* receive.
C36_NoWaitOnDeadReader ==
    readerPc = "done" => \A c \in Callers : ~WaitsForResult(c)

\* ---------------------------------------------------------------- C37 ----
\* C37: when a hook_callback control request carries a tool_use_id, the
\* hook callback is invoked with that same tool use id, and with no id only
\* when the request carries none.
C37_ToolUseIdPassedOn ==
    \A v \in hookCalls :
        LET request == emitted[v.seq].request
        IN IF "tool_use_id" \in DOMAIN request
           THEN v.toolUseID = <<request.tool_use_id.s>>
           ELSE v.toolUseID = <<>>

\* ---------------------------------------------------------------- C38 ----
\* The process's seq-th object is a can_use_tool request whose handler is no
\* longer running.
PermissionHandled(seq) ==
    /\ emitted[seq].type = "control_request"
    /\ emitted[seq].request.subtype = "can_use_tool"
    /\ emitted[seq] \notin handlers

\* C38: a can_use_tool control request with malformed fields (a
\* permission_suggestions entry without a string type, a missing input)
\* never crashes the engine: it is still answered with exactly one
\* control_response carrying its request id, and the reader and the other
\* requests in flight go on.
C38_MalformedStillAnswered ==
    /\ readerPc # "crashed"
    /\ \A i \in 1..Len(emitted) :
          PermissionHandled(i) => Cardinality(ResponseIndexes(i)) = 1

\* ---------------------------------------------------------------- C39 ----
\* The process has ended and with it its output: the scanner reaches the
\* end of the stream and Wait returns.
StreamOver == transport.proc # "running"

\* C39: the transport's read goroutine always terminates: whatever lines the
\* process printed and whether or not anyone still receives from its
\* channels, once the stream has ended or the context is cancelled the
\* goroutine started by ReadMessages finishes and closes its message channel
\* and its error channel; it never blocks for ever on sending an error.
\* Stated for the stream that has ended.
C39_ReadGoroutineEnds == (FramerStarted /\ StreamOver) ~> ChansClosed

====
